---------------------------- MODULE Spec2Model ----------------------------
(***************************************************************************)
(* Session state, segmentation and task lifecycle of the voice bot:        *)
(*   AudioProcessor   (src/bot/audio/audio_processor.py)                     *)
(*   TaskManager      (src/bot/task_manager/task_manager.py)                 *)
(*   AudioTaskHandler (src/bot/task_manager/audio_task_manager.py)           *)
(*   SocketManager    (src/bot/sockets/socket_manager.py)                    *)
(*                                                                         *)
(* Audio is abstracted per chunk: a chunk is a record                      *)
(*   [len |-> bytes, rms |-> r, peak |-> p]                                 *)
(* where r is the RMS energy and p the peak absolute amplitude of the       *)
(* resampled chunk, both in thousandths of full scale (0.02 is 20). A byte  *)
(* buffer is the sequence of the chunks appended to it. The peak of a       *)
(* resampled buffer is the largest peak of its chunks, and p >= r for every *)
(* chunk (a peak is never below the RMS of the same signal).                *)
(*                                                                         *)
(* Durations are kept exactly, as sample counts at the input rate: the      *)
(* code's float silent_duration (seconds) is silent_duration divided by     *)
(* original_sample_rate here.                                               *)
(***************************************************************************)
EXTENDS Integers, Sequences, FiniteSets, TLC

VARIABLES
    cfg,          \* AudioProcessor constructor parameters (immutable after Init)
    call_states,  \* AudioProcessor.call_states: call_id -> state record
    ret,          \* the last AudioProcessor call: operation, arguments, return value
    mon,          \* observer of the chunk stream (history, not program state)
    tasks,        \* every asyncio.Task created so far, by task id (1..Len)
    active_tasks, \* TaskManager.active_tasks: call_id -> (task_name -> task id)
    task_locks,   \* TaskManager.task_locks: call_id -> asyncio.Lock
    callers,      \* the coroutines calling into the TaskManager, and where they are
    sm,           \* one SocketManager: its fields, its receive loop, its teardown
    unit,         \* one run of AudioTaskHandler._transcribe_and_respond_task
    bot           \* the module bot.py: active_bots, audio_buffer, its bot tasks

apVars == <<cfg, call_states, ret, mon>>
tmVars == <<tasks, active_tasks, task_locks, callers>>
vars == <<cfg, call_states, ret, mon, tasks, active_tasks, task_locks, callers, sm,
          unit, bot>>

None == "None"

(***************************************************************************)
(* Bounds of the model                                                     *)
(***************************************************************************)
MaxBuf == 4       \* chunks held in one accumulator (generic stream)
MaxRun == 7       \* chunks of one observed utterance run (generic stream)
MaxLoud == 31     \* above-threshold 100 ms chunks fed in the scenarios
MaxSilent == 21   \* below-threshold 100 ms chunks fed in the scenarios
MaxTasks == 3     \* tasks created through the TaskManager in one behaviour
MaxSMBuf == 2     \* chunks held in the accumulator of the SocketManager
MaxSMTasks == 2   \* tasks created by the receive loop in one behaviour
MaxSessTasks == 2 \* tasks created in the TaskManager shared by two sessions
MaxPairBuf == 2   \* chunks held in each accumulator of two sessions
MaxHeard == 2     \* chunks of the stream observed since the last ready event
MaxHandlerTasks == 3  \* units of work started by the audio handler
MaxFrameTasks == 2    \* handler tasks started by the receive loop in SpecFrames
MaxBots == 3          \* bot tasks started through /join in one behaviour
MaxBotBuf == 3        \* chunks held in the module-level accumulator of bot.py
MaxPairBots == 2      \* bot tasks started when two calls are served

(***************************************************************************)
(* AudioProcessor.__init__                                                 *)
(***************************************************************************)
bytes_per_sample == 2
channels == 1

\* The defaults of AudioProcessor.__init__ (0.02 -> 20 thousandths, 2.0 s -> 2000 ms).
DefaultConfig ==
    [original_sample_rate |-> 48000,
     target_sample_rate |-> 16000,
     silence_threshold |-> 20,
     silence_duration_ms |-> 1500,
     min_buffer_duration_ms |-> 2000]

\* A small configuration in which both gates bite: one chunk of 4 bytes is
\* 2 samples = 1 s, the silence gate needs 2 s, the length gate more than 8 bytes.
SmallConfig ==
    [original_sample_rate |-> 2,
     target_sample_rate |-> 4,
     silence_threshold |-> 20,
     silence_duration_ms |-> 2000,
     min_buffer_duration_ms |-> 1000]

(***************************************************************************)
(* Chunks                                                                  *)
(***************************************************************************)
Chunk(n, r, p) == [len |-> n, rms |-> r, peak |-> p]

\* below the threshold in RMS and in peak
Quiet(n) == Chunk(n, 5, 10)
\* a click in silence: RMS below the threshold, peak above it
Blip(n) == Chunk(n, 10, 500)
\* speech: RMS (hence peak) above the threshold
Loud(n) == Chunk(n, 100, 300)
\* a chunk whose byte length is not a multiple of the sample width
Odd(n) == Chunk(n, 0, 0)

RECURSIVE BufLen(_)
\* len(state['audio_buffer'])
BufLen(buf) == IF buf = <<>> THEN 0 ELSE Head(buf).len + BufLen(Tail(buf))

Max2(a, b) == IF a >= b THEN a ELSE b

RECURSIVE BufPeak(_)
\* np.max(np.abs(resample_poly(frombuffer(buffer) / 32768.0, up, down)))
BufPeak(buf) == IF buf = <<>> THEN 0 ELSE Max2(Head(buf).peak, BufPeak(Tail(buf)))

\* np.frombuffer(data, dtype=np.int16) raises ValueError unless the byte
\* length is a multiple of the element size
FromBufferRaises(n) == n % bytes_per_sample # 0

\* length in samples of resample_poly(x, up, down): ceil(len(x) * up / down)
ResampledLen(c, samples) ==
    (samples * c.target_sample_rate + c.original_sample_rate - 1)
        \div c.original_sample_rate

(***************************************************************************)
(* AudioProcessor: per-call state                                          *)
(***************************************************************************)
FreshState == [audio_buffer |-> <<>>, silent_duration |-> 0, is_processing |-> FALSE]

\* one state record shared by every call
PutShared(f, k, v) == [x \in DOMAIN f \cup {k} |-> v]
\* self.call_states[call_id] = v
Put(f, k, v) == [x \in DOMAIN f \cup {k} |-> IF x = k THEN v ELSE f[x]]
Drop(f, k) == [x \in DOMAIN f \ {k} |-> f[x]]

initialize_call_state(cs, call) == Put(cs, call, FreshState)

\* a close that only empties the accumulator
cleanup_keeps_entry(cs, call) ==
    IF call \in DOMAIN cs THEN [cs EXCEPT ![call].audio_buffer = <<>>] ELSE cs
cleanup_call_state(cs, call) == IF call \in DOMAIN cs THEN Drop(cs, call) ELSE cs

get_call_state(cs, call) ==
    IF call \notin DOMAIN cs THEN initialize_call_state(cs, call) ELSE cs

\* the silence gate with a strict comparison
SilenceGateStrict(c, silent) ==
    silent * 1000 > c.silence_duration_ms * c.original_sample_rate
\* silent_duration >= silence_duration_ms / 1000.0   (silent_duration in samples)
SilenceGate(c, silent) ==
    silent * 1000 >= c.silence_duration_ms * c.original_sample_rate

\* the length gate computed at the input rate
LengthGateInputRate(c, nbytes) ==
    nbytes * 1000 > c.original_sample_rate * c.min_buffer_duration_ms * 2
\* len(audio_buffer) > target_sample_rate * min_buffer_duration_s * 2
LengthGate(c, nbytes) ==
    nbytes * 1000 > c.target_sample_rate * c.min_buffer_duration_ms * 2

\* either gate alone lets the accumulator through
GatesEither(c, silent, nbytes) == SilenceGate(c, silent) \/ LengthGate(c, nbytes)
\* the condition of lines 94-95: both gates
GatesMet(c, silent, nbytes) == SilenceGate(c, silent) /\ LengthGate(c, nbytes)

\* The result of one branch of process_audio_chunk: the new state of the call,
\* the returned pair, and the branch taken.
Outcome(cs, call, st, should, copy, branch) ==
    [cs |-> Put(cs, call, st), should |-> should, buffer_copy |-> copy,
     branch |-> branch]

\* a chunk is skipped without a guard on the dispatch flag
SkipsNever(state) == FALSE
\* if state['is_processing']: return False, None
Skips(state) == state.is_processing

\* the silence timer keeps running through above-threshold chunks
SilentNoReset(c, state, data) ==
    state.silent_duration + data.len \div (bytes_per_sample * channels)
\* energy < silence_threshold: silent_duration += chunk_duration, else 0.0
SilentAfter(c, state, data) ==
    IF data.rms < c.silence_threshold
    THEN state.silent_duration + data.len \div (bytes_per_sample * channels)
    ELSE 0

\* the amplitude is compared without the division by 32768.0
BufPeakRaw(buf) == (BufPeak(buf) * 32768) \div 1000
\* max_energy of the whole resampled accumulator
MaxEnergy(buf) == BufPeak(buf)

\* the silence-only verdict forgets to zero the silence timer
DiscardKeepsSilence(st) == [st EXCEPT !.audio_buffer = <<>>]
\* the silence-only verdict: audio_buffer = bytearray(), silent_duration = 0.0
DiscardState(st) == [st EXCEPT !.audio_buffer = <<>>, !.silent_duration = 0]

\* the genuine-utterance verdict forgets to zero the silence timer
ReadyKeepsSilence(st) ==
    [st EXCEPT !.is_processing = TRUE, !.audio_buffer = <<>>]
\* the genuine-utterance verdict forgets to set the dispatch flag
ReadyLeavesFlag(st) == [st EXCEPT !.audio_buffer = <<>>, !.silent_duration = 0]
\* the genuine-utterance verdict: flag set, accumulator cleared, timer zeroed
ReadyState(st) ==
    [st EXCEPT !.is_processing = TRUE, !.audio_buffer = <<>>, !.silent_duration = 0]

process_audio_chunk(c, cs0, call, data) ==
    LET cs == get_call_state(cs0, call)
        state == cs[call]
    IN  IF Skips(state)
        THEN Outcome(cs, call, state, FALSE, None, "dropped")
        ELSE
        LET buf == Append(state.audio_buffer, data)
            st1 == [state EXCEPT !.audio_buffer = buf]
        IN  IF FromBufferRaises(data.len)
            THEN Outcome(cs, call, st1, FALSE, None, "error")
            ELSE
            LET silent == SilentAfter(c, state, data)
                st2 == [st1 EXCEPT !.silent_duration = silent]
            IN  IF GatesMet(c, silent, BufLen(buf))
                THEN IF FromBufferRaises(BufLen(buf))
                     THEN Outcome(cs, call, st2, FALSE, None, "error")
                     ELSE IF MaxEnergy(buf) < c.silence_threshold
                     THEN Outcome(cs, call, DiscardState(st2), FALSE, None,
                                  "discarded")
                     ELSE Outcome(cs, call, ReadyState(st2), TRUE, buf, "ready")
                ELSE Outcome(cs, call, st2, FALSE, None, "waiting")

finish_processing(cs0, call) ==
    LET cs == get_call_state(cs0, call)
    IN  [cs EXCEPT ![call].is_processing = FALSE]

\* is_processing(call_id): the state after the query (get_call_state may create it)
is_processing_state(cs0, call) == get_call_state(cs0, call)


(***************************************************************************)
(* Observer of the chunk stream of one call (history only).                *)
(*   all_rms_silent   every chunk fed so far was well formed, RMS < threshold*)
(*   all_peak_silent  ... and had its peak below the threshold             *)
(*   appended         the chunks appended since the accumulator was reset  *)
(*   run              the current utterance run: above-threshold chunks    *)
(*                    followed by below-threshold chunks, begun on an idle *)
(*                    accumulator                                          *)
(***************************************************************************)
NoRun ==
    [phase |-> "off", n |-> 0, loud |-> 0, nsil |-> 0, bytes |-> 0, silent |-> 0,
     events |-> 0, seg |-> 0, copy_ok |-> TRUE, quiet |-> TRUE]

MonInit ==
    [all_rms_silent |-> TRUE, all_peak_silent |-> TRUE, appended |-> <<>>,
     run |-> NoRun]

WellFormed(d) == d.len % bytes_per_sample = 0
IsLoud(c, d) == WellFormed(d) /\ d.rms >= c.silence_threshold
IsSilent(c, d) == WellFormed(d) /\ d.rms < c.silence_threshold
Samples(d) == d.len \div (bytes_per_sample * channels)

\* the accumulator of `call` is idle: no entry yet, or empty with the flag clear
Idle(cs, call) ==
    call \notin DOMAIN cs
    \/ (cs[call].audio_buffer = <<>> /\ ~cs[call].is_processing)

\* the run after chunk d was fed with outcome o; cap bounds the observed run
RunAfter(c, cs, call, d, o, cap) ==
    LET r == mon.run
        ev == IF o.should THEN 1 ELSE 0
        ok == IF o.should THEN o.buffer_copy = Append(mon.appended, d) ELSE TRUE
        sg == IF o.should THEN BufLen(o.buffer_copy) ELSE r.seg
    IN  IF Idle(cs, call) /\ IsLoud(c, d)
        THEN [phase |-> "loud", n |-> 1, loud |-> 1, nsil |-> 0, bytes |-> d.len,
              silent |-> 0, events |-> ev, seg |-> sg, copy_ok |-> ok,
              quiet |-> TRUE]
        ELSE IF r.phase = "off" \/ r.n >= cap THEN NoRun
        ELSE IF r.phase = "loud" /\ IsLoud(c, d)
        THEN [r EXCEPT !.n = @ + 1, !.loud = @ + 1, !.bytes = @ + d.len,
                       !.events = @ + ev, !.seg = sg, !.copy_ok = @ /\ ok]
        ELSE IF IsSilent(c, d)
        THEN [r EXCEPT !.phase = "silent", !.n = @ + 1, !.nsil = @ + 1,
                       !.bytes = @ + d.len, !.silent = @ + Samples(d),
                       !.events = @ + ev, !.seg = sg, !.copy_ok = @ /\ ok,
                       !.quiet = @ /\ d.peak < c.silence_threshold]
        ELSE NoRun

MonAfter(c, cs, call, d, o, cap) ==
    [all_rms_silent |-> mon.all_rms_silent /\ IsSilent(c, d),
     all_peak_silent |-> mon.all_peak_silent /\ WellFormed(d)
                            /\ d.peak < c.silence_threshold,
     appended |-> IF o.branch = "dropped" THEN mon.appended
                  ELSE IF o.branch \in {"ready", "discarded"} THEN <<>>
                  ELSE Append(mon.appended, d),
     run |-> RunAfter(c, cs, call, d, o, cap)]

Ret(op, call, data, should, copy, branch) ==
    [op |-> op, call |-> call, data |-> data, should |-> should,
     buffer_copy |-> copy, branch |-> branch]

RetInit == Ret("init", None, None, FALSE, None, None)

(***************************************************************************)
(* AudioProcessor operations as actions                                    *)
(***************************************************************************)
\* one call of process_audio_chunk(call, d), observed with cap
ProcessChunk(call, d, cap) ==
    LET o == process_audio_chunk(cfg, call_states, call, d)
    IN  /\ call_states' = o.cs
        /\ ret' = Ret("process_audio_chunk", call, d, o.should, o.buffer_copy,
                      o.branch)
        /\ mon' = MonAfter(cfg, call_states, call, d, o, cap)
        /\ UNCHANGED cfg

InitializeCallState(call) ==
    /\ call_states' = initialize_call_state(call_states, call)
    /\ ret' = Ret("initialize_call_state", call, None, FALSE, None, None)
    /\ mon' = [mon EXCEPT !.appended = <<>>, !.run = NoRun]
    /\ UNCHANGED cfg

CleanupCallState(call) ==
    /\ call_states' = cleanup_call_state(call_states, call)
    /\ ret' = Ret("cleanup_call_state", call, None, FALSE, None, None)
    /\ mon' = [mon EXCEPT !.appended = <<>>, !.run = NoRun]
    /\ UNCHANGED cfg

FinishProcessing(call) ==
    /\ call_states' = finish_processing(call_states, call)
    /\ ret' = Ret("finish_processing", call, None, FALSE, None, None)
    /\ UNCHANGED <<cfg, mon>>

IsProcessing(call) ==
    /\ call_states' = is_processing_state(call_states, call)
    /\ ret' = Ret("is_processing", call, None, call_states'[call].is_processing,
                  None, None)
    /\ UNCHANGED <<cfg, mon>>

(***************************************************************************)
(* asyncio tasks.  A task is created "scheduled"; its first step makes it  *)
(* "running" (suspended at an await) and any later step may end it.        *)
(* Task.cancel() on a task that is not done makes the next step of the     *)
(* task raise CancelledError inside it; a task cancelled before its first  *)
(* step ends without having executed any of its body.                      *)
(***************************************************************************)
Calls == {"call_1"}
Slots == {"audio_process"}
\* the orders in which a per-call dict of slots may be iterated
SlotOrders ==
    {o \in [1 .. Cardinality(Slots) -> Slots] :
        \A i, j \in DOMAIN o : i # j => o[i] # o[j]}
Callers == {"k1", "k2", "k3"}

\* asyncio.create_task(coro): pred is the occupant the creator found in the
\* slot (0: none), pred_live whether that occupant was not done then.
NewTask(call, slot, kind, pred, pred_live) ==
    [call |-> call, slot |-> slot, kind |-> kind, state |-> "scheduled",
     must_cancel |-> FALSE, cancel_req |-> FALSE, started |-> FALSE,
     outcome |-> None, pred |-> pred, pred_live |-> pred_live]

TaskIds == 1 .. Len(tasks)

\* task.done()
Done(tk) == tk.state = "done"

\* task.cancel(): no effect on a task that is done
Cancel(tk) ==
    IF Done(tk) THEN tk ELSE [tk EXCEPT !.must_cancel = TRUE, !.cancel_req = TRUE]

Finished(tk, outcome) ==
    [tk EXCEPT !.state = "done", !.outcome = outcome, !.must_cancel = FALSE]

(***************************************************************************)
(* asyncio.Lock: acquire() takes a free lock without suspending when no    *)
(* waiter is queued, and queues otherwise; release() unlocks and wakes the *)
(* first waiter, which takes the lock when it resumes.                     *)
(***************************************************************************)
FreshLock == [locked |-> FALSE, waiters |-> <<>>, woken |-> FALSE]

get_lock(locks, call) ==
    IF call \notin DOMAIN locks THEN Put(locks, call, FreshLock) ELSE locks

\* every acquire succeeds at once (a lock that excludes nobody)
LockAlwaysFree(l) == TRUE
\* the fast path of `async with self.get_lock(call_id)`
LockFree(l) == ~l.locked /\ l.waiters = <<>>

Acquired(locks, call) == [locks EXCEPT ![call].locked = TRUE]

Enqueued(locks, call, k) ==
    [locks EXCEPT ![call].waiters = Append(@, k)]

\* the woken first waiter resumes: it leaves the queue and takes the lock
Granted(locks, call) ==
    [locks EXCEPT ![call] = [locked |-> TRUE, waiters |-> Tail(@.waiters),
                             woken |-> FALSE]]

\* leaving `async with`
Release(locks, call) ==
    [locks EXCEPT ![call] = [locked |-> FALSE, waiters |-> @.waiters,
                             woken |-> @.waiters # <<>>]]

(***************************************************************************)
(* TaskManager.  The operations are written as functions of               *)
(*   S = [tasks, active, locks, me, result]                                *)
(* (me: the record of the calling coroutine; result: what the operation    *)
(* returned, when it has), each running from one suspension point of the   *)
(* caller to the next.                                                     *)
(***************************************************************************)
IdleCaller ==
    [id |-> None, pc |-> "idle", op |-> None, call |-> None, slot |-> None, awaiting |-> 0,
     occ |-> 0, occ_live |-> FALSE, todo |-> <<>>, raised |-> FALSE]

\* call_id in active_tasks and task_name in active_tasks[call_id]
Occupied(active, call, slot) ==
    call \in DOMAIN active /\ slot \in DOMAIN active[call]

Occupant(active, call, slot) ==
    IF Occupied(active, call, slot) THEN active[call][slot] ELSE 0

\* the caller goes on without waiting for the task it cancelled
AwaitReturnsAtOnce(tk) == TRUE
\* `await task` returns (or raises into the except clauses) once the task is done
AwaitReturns(tk) == Done(tk)

\* the caller returns `result`: the lock is released, the caller is idle again
Return(S, call, result) ==
    [S EXCEPT !.locks = Release(S.locks, call),
              !.me = [IdleCaller EXCEPT !.id = S.me.id],
              !.result = result]

\* only `except asyncio.CancelledError` surrounds `await task`
SwallowsCancelOnly(outcome) == outcome # "failed"
\* the except clauses around `await task` (CancelledError, then Exception):
\* of the ways a task can end with an exception, both are caught
Swallowed(outcome) ==
    outcome \in {"cancelled", "failed"} => outcome \in {"cancelled", "failed"}

\* an exception leaves the operation: the lock is released by `async with`,
\* the rest of the body is skipped
Raise(S, call) ==
    [S EXCEPT !.locks = Release(S.locks, call),
              !.me = [IdleCaller EXCEPT !.id = S.me.id, !.raised = TRUE],
              !.result = "raised"]

\* task.cancel() and suspension at `await task`
CancelAndAwait(S, t) ==
    [S EXCEPT !.tasks[t] = Cancel(S.tasks[t]),
              !.me.pc = "await_task", !.me.awaiting = t]

\* create_task, lines 54-61: the new task is started and recorded
CreateFinish(S, call, slot, kind) ==
    LET active1 == IF call \notin DOMAIN S.active
                   THEN Put(S.active, call, <<>>) ELSE S.active
        id == Len(S.tasks) + 1
        S1 == [S EXCEPT !.tasks = Append(S.tasks,
                                     NewTask(call, slot, kind, S.me.occ,
                                             S.me.occ_live)),
                        !.active = [active1 EXCEPT
                                       ![call] = Put(active1[call], slot, id)]]
    IN  Return(S1, call, id)

\* create_task, lines 41-52, entered with the lock held
CreateBody(S, call, slot, kind) ==
    LET occ == Occupant(S.active, call, slot)
        live == occ # 0 /\ ~Done(S.tasks[occ])
        S1 == [S EXCEPT !.me.occ = occ, !.me.occ_live = live]
    IN  IF live THEN CancelAndAwait(S1, occ) ELSE CreateFinish(S1, call, slot, kind)

\* cancel_task deleting the entry of the whole session
CancelFinishDropsCall(S, call, slot) ==
    Return([S EXCEPT !.active = Drop(S.active, call)], call, TRUE)
\* cancel_task, lines 33-36: the entry is deleted
CancelFinish(S, call, slot) ==
    LET rest == Drop(S.active[call], slot)
        S1 == [S EXCEPT !.active = IF DOMAIN rest = {}
                                   THEN Drop(S.active, call)
                                   ELSE [S.active EXCEPT ![call] = rest]]
    IN  Return(S1, call, TRUE)

\* cancel_task reporting True whether or not the slot had an entry
CancelBodyAlwaysTrue(S, call, slot) ==
    IF Occupied(S.active, call, slot)
    THEN LET t == S.active[call][slot]
         IN  IF ~Done(S.tasks[t]) THEN CancelAndAwait(S, t)
             ELSE CancelFinish(S, call, slot)
    ELSE Return(S, call, TRUE)
\* cancel_task, lines 21-37, entered with the lock held
CancelBody(S, call, slot) ==
    IF Occupied(S.active, call, slot)
    THEN LET t == S.active[call][slot]
         IN  IF ~Done(S.tasks[t]) THEN CancelAndAwait(S, t)
             ELSE CancelFinish(S, call, slot)
    ELSE Return(S, call, FALSE)

RECURSIVE CleanupLoop(_, _, _)
\* cleanup_call, lines 67-78: the loop over the slots still to visit
CleanupLoop(S, call, todo) ==
    IF todo = <<>>
    THEN Return([S EXCEPT !.active = Drop(S.active, call)], call, None)
    ELSE LET slot == Head(todo)
         IN  IF slot \in DOMAIN S.active[call] /\ ~Done(S.tasks[S.active[call][slot]])
             THEN CancelAndAwait([S EXCEPT !.me.todo = Tail(todo)],
                                 S.active[call][slot])
             ELSE CleanupLoop(S, call, Tail(todo))

\* cleanup_call, lines 65-78, entered with the lock held
CleanupBody(S, call) ==
    IF call \in DOMAIN S.active THEN CleanupLoop(S, call, S.me.todo)
    ELSE Return(S, call, None)

\* the body of the operation of S.me, from the acquisition of the lock
Body(S) ==
    LET me == S.me
    IN  IF me.op = "create_task" THEN CreateBody(S, me.call, me.slot, "unit")
        ELSE IF me.op = "cancel_task" THEN CancelBody(S, me.call, me.slot)
        ELSE CleanupBody(S, me.call)

\* the operation of S.me resumed after `await task`
Resume(S) ==
    LET me == S.me
        S1 == [S EXCEPT !.me.awaiting = 0]
    IN  IF ~Swallowed(S.tasks[me.awaiting].outcome) THEN Raise(S, me.call)
        ELSE IF me.op = "create_task" THEN CreateFinish(S1, me.call, me.slot, "unit")
        ELSE IF me.op = "cancel_task" THEN CancelFinish(S1, me.call, me.slot)
        ELSE CleanupLoop(S1, me.call, me.todo)

\* one lock for the whole TaskManager: the caller queues while any lock is held
EnterProcessWide(S) ==
    LET call == S.me.call
        locks1 == get_lock(S.locks, call)
    IN  IF \A c \in DOMAIN locks1 : LockFree(locks1[c])
        THEN Body([S EXCEPT !.locks = Acquired(locks1, call)])
        ELSE [S EXCEPT !.locks = Enqueued(locks1, call, S.me.id),
                       !.me.pc = "wait_lock"]
\* `async with self.get_lock(call_id)`: the body runs at once when the lock
\* is free, the caller queues otherwise
Enter(S) ==
    LET call == S.me.call
        locks1 == get_lock(S.locks, call)
    IN  IF LockFree(locks1[call])
        THEN Body([S EXCEPT !.locks = Acquired(locks1, call)])
        ELSE [S EXCEPT !.locks = Enqueued(locks1, call, S.me.id),
                       !.me.pc = "wait_lock"]

TMState(k) ==
    [tasks |-> tasks, active |-> active_tasks, locks |-> task_locks,
     me |-> callers[k], result |-> None]

TMApply(k, S) ==
    /\ tasks' = S.tasks
    /\ active_tasks' = S.active
    /\ task_locks' = S.locks
    /\ callers' = [callers EXCEPT ![k] = S.me]

\* tasks a create_task in flight will still start
CreatesInFlight ==
    Cardinality({k \in DOMAIN callers :
                    callers[k].pc # "idle" /\ callers[k].op = "create_task"})

\* a coroutine calls create_task / cancel_task / cleanup_call (order: the
\* iteration order of the per-call dict, used by cleanup_call only)
CallState(k, op, call, slot, order) ==
    Enter([TMState(k) EXCEPT
              !.me = [IdleCaller EXCEPT
                         !.id = k, !.op = op, !.call = call,
                         !.slot = IF op = "cleanup_call" THEN None ELSE slot,
                         !.todo = IF op = "cleanup_call" THEN order ELSE <<>>]])

TMCall(k, op, call, slot, order) ==
    /\ callers[k].pc = "idle"
    /\ op = "create_task" => Len(tasks) + CreatesInFlight < MaxTasks
    /\ TMApply(k, CallState(k, op, call, slot, order))

\* a queued caller is woken by the release of the lock and runs its body
GrantState(k) ==
    Body([TMState(k) EXCEPT !.locks = Granted(task_locks, callers[k].call),
                            !.me.pc = "locked"])

TMLockGranted(k) ==
    /\ callers[k].pc = "wait_lock"
    /\ LET l == task_locks[callers[k].call]
       IN  l.woken /\ l.waiters # <<>> /\ Head(l.waiters) = k
    /\ TMApply(k, GrantState(k))

\* the awaited task is done: the caller goes on to its next suspension point
AwaitState(k) == Resume(TMState(k))

TMAwaitDone(k) ==
    /\ callers[k].pc = "await_task"
    /\ AwaitReturns(tasks[callers[k].awaiting])
    /\ TMApply(k, AwaitState(k))

(***************************************************************************)
(* A generic unit of work started through the TaskManager                  *)
(***************************************************************************)
\* first step of a task: a task cancelled before it ends without running
UnitStart(t) ==
    /\ tasks[t].kind = "unit" /\ tasks[t].state = "scheduled"
    /\ tasks' = [tasks EXCEPT ![t] =
                    IF @.must_cancel THEN Finished(@, "cancelled")
                    ELSE [@ EXCEPT !.state = "running", !.started = TRUE]]
    /\ UNCHANGED <<active_tasks, task_locks, callers>>

\* a later step: the unit ends normally or with an exception
UnitEnd(t) ==
    /\ tasks[t].kind = "unit" /\ tasks[t].state = "running"
    /\ ~tasks[t].must_cancel
    /\ \E o \in {"ok", "failed"} : tasks' = [tasks EXCEPT ![t] = Finished(@, o)]
    /\ UNCHANGED <<active_tasks, task_locks, callers>>

\* CancelledError is raised inside the unit: it ends cancelled, ends with
\* another exception, or swallows it and keeps running
UnitCancelled(t) ==
    /\ tasks[t].kind = "unit" /\ tasks[t].state = "running"
    /\ tasks[t].must_cancel
    /\ \/ \E o \in {"cancelled", "failed"} :
             tasks' = [tasks EXCEPT ![t] = Finished(@, o)]
       \/ tasks' = [tasks EXCEPT ![t].must_cancel = FALSE]
    /\ UNCHANGED <<active_tasks, task_locks, callers>>

(***************************************************************************)
(* SocketManager fields.                                                   *)
(*   websocket     self.websocket: None or the connection object           *)
(*   conn          state of the connection: none, OPEN, CLOSING, CLOSED    *)
(*   on_receive    whether connect() was given a callback                  *)
(*   receive_task  where _receive_loop is: none, recv (waiting for the     *)
(*                 next frame), gather / final_gather (waiting for the     *)
(*                 tasks it cancelled), done                               *)
(*   loop_wait     the tasks the loop waits for; loop_next the kind of     *)
(*                 task it starts afterwards; loop_cancel: cancellation of *)
(*                 the receive task is pending                             *)
(*   pending       self.pending_on_receive_tasks                           *)
(*   delayed       a _delayed_disconnect task is sleeping                  *)
(*   disc          where disconnect() is: idle (never called), gather,     *)
(*                 closing, returned (the last call has returned)          *)
(*   auto_disconnect_enabled  self.auto_disconnect_enabled                 *)
(*   farewell      what became of the farewell sent before the sleeping    *)
(*                 teardown was scheduled: sent, failed; None without one  *)
(*   others_by     the task whose callback waits in                        *)
(*                 cancel_other_on_receive_tasks (0: none), others_wait    *)
(*                 the tasks it waits for                                  *)
(***************************************************************************)
SMNew ==
    [websocket |-> None, conn |-> "none", on_receive |-> FALSE,
     receive_task |-> "none", loop_wait |-> {}, loop_next |-> None,
     loop_cancel |-> FALSE, pending |-> {}, delayed |-> FALSE,
     disc |-> "idle", disc_wait |-> {},
     auto_disconnect_enabled |-> TRUE, farewell |-> None,
     others_by |-> 0, others_wait |-> {}]

(***************************************************************************)
(* One unit of work of the AudioTaskHandler.                               *)
(*   pc          none (no unit), scheduled, the await the unit is          *)
(*               suspended at, query (the synchronous query), or done      *)
(*   quiet       the peak of the segment is below the silence threshold    *)
(*   wait_audio  get_wait_message_audio returned audio                     *)
(*   outbox      the messages sent on the channel, in order                *)
(*   failures    the downstream calls that failed                          *)
(*   outcome     how the task ended: ok, failed (an exception left it),    *)
(*               cancelled                                                 *)
(*   awaited     a supervisor has cancelled the task and awaits it         *)
(*   log         what that supervisor logged: info, error                  *)
(***************************************************************************)
NoUnit ==
    [pc |-> "none", quiet |-> FALSE, wait_audio |-> FALSE, outbox |-> <<>>,
     failures |-> {}, must_cancel |-> FALSE, started |-> FALSE,
     outcome |-> None, awaited |-> FALSE, log |-> None]

(***************************************************************************)
(* bot.py after its import: no bot is active and the module-level          *)
(* accumulator is empty.                                                   *)
(*   active_bots   active_bots: call_id -> the task of its entry           *)
(*   audio_buffer  the module-level bytearray, as the chunks it holds;     *)
(*                 each chunk keeps the call on whose connection it came   *)
(*   bots          every task created for bot_join_call, by task id        *)
(*   ev            the last hand-over to transcription or buffer reset     *)
(***************************************************************************)
NoBotEvent == [op |-> "none", by |-> None, held |-> <<>>]

BotModule ==
    [active_bots |-> <<>>, audio_buffer |-> <<>>, bots |-> <<>>, ev |-> NoBotEvent]

NoBot == bot = BotModule

NoSocket == sm = SMNew /\ unit = NoUnit

TMInitState ==
    /\ tasks = <<>>
    /\ active_tasks = <<>>
    /\ task_locks = <<>>
    /\ callers = [k \in Callers |-> [IdleCaller EXCEPT !.id = k]]

APIdle ==
    /\ cfg = DefaultConfig
    /\ call_states = <<>>
    /\ ret = RetInit
    /\ mon = MonInit

(***************************************************************************)
(* Spec: one TaskManager called concurrently by several coroutines         *)
(***************************************************************************)
Ops == {"create_task", "cancel_task", "cleanup_call"}

TMInit == APIdle /\ TMInitState /\ NoSocket /\ NoBot

TMNext ==
    /\ \/ \E k \in Callers, op \in Ops, call \in Calls, slot \in Slots,
             order \in SlotOrders : TMCall(k, op, call, slot, order)
       \/ \E k \in Callers : TMLockGranted(k)
       \/ \E k \in Callers : TMAwaitDone(k)
       \/ \E t \in TaskIds : UnitStart(t)
       \/ \E t \in TaskIds : UnitEnd(t)
       \/ \E t \in TaskIds : UnitCancelled(t)
    /\ UNCHANGED <<apVars, sm, unit, bot>>

SpecTM == TMInit /\ [][TMNext]_vars

\* the tasks started for (call, slot) that have not terminated
NonTerminated(call, slot) ==
    {t \in TaskIds : tasks[t].call = call /\ tasks[t].slot = slot
                     /\ ~Done(tasks[t])}

\* C1: for every session and slot, at most one task started through the
\* TaskManager for that (session, slot) is non-terminated, whatever the
\* interleaving of concurrent create_task, cancel_task and cleanup_call calls
C1_AtMostOneLive ==
    \A call \in Calls, slot \in Slots :
        Cardinality(NonTerminated(call, slot)) <= 1

\* a replaced occupant has terminated, its successor is alive, and two other
\* callers for the same session are queued on the session lock
C1_Witness ==
    \E t \in TaskIds, k1, k2 \in Callers :
        /\ tasks[t].pred_live /\ ~Done(tasks[t])
        /\ k1 # k2
        /\ callers[k1].pc = "wait_lock" /\ callers[k2].pc = "wait_lock"
        /\ callers[k1].call = tasks[t].call /\ callers[k2].call = tasks[t].call

\* C2: when create_task finds a non-terminated occupant, the occupant has
\* received cancellation and has terminated before the new unit of work
\* exists, hence before its first step; the two are never both live
C2_OccupantGoneFirst ==
    \A t \in TaskIds :
        tasks[t].pred_live =>
            /\ tasks[tasks[t].pred].cancel_req
            /\ Done(tasks[tasks[t].pred])
            /\ tasks[tasks[t].pred].call = tasks[t].call
            /\ tasks[tasks[t].pred].slot = tasks[t].slot

\* the occupant was running, ended cancelled, and the new unit has run its
\* first step
C2_Witness ==
    \E t \in TaskIds :
        /\ tasks[t].pred_live /\ tasks[t].started
        /\ tasks[tasks[t].pred].started
        /\ tasks[tasks[t].pred].outcome = "cancelled"

(***************************************************************************)
(* SpecAudio: one AudioProcessor fed an arbitrary chunk stream             *)
(***************************************************************************)
AudioCall == "call_1"

\* 4 bytes = 2 samples; 3 bytes is malformed
StreamChunks == {Quiet(4), Blip(4), Loud(4), Odd(3)}

AudioInit ==
    /\ cfg = SmallConfig
    /\ call_states = <<>>
    /\ ret = RetInit
    /\ mon = MonInit
    /\ TMInitState
    /\ NoSocket
    /\ NoBot

\* the accumulator still has room in the model
Room(call) ==
    call \in DOMAIN call_states => Len(call_states[call].audio_buffer) < MaxBuf

AudioFeed == \E d \in StreamChunks : Room(AudioCall) /\ ProcessChunk(AudioCall, d, MaxRun)

AudioNext ==
    /\ \/ AudioFeed
       \/ InitializeCallState(AudioCall)
       \/ CleanupCallState(AudioCall)
       \/ FinishProcessing(AudioCall)
       \/ IsProcessing(AudioCall)
    /\ UNCHANGED <<tmVars, sm, unit, bot>>

SpecAudio == AudioInit /\ [][AudioNext]_vars


(***************************************************************************)
(* Claims on the segmentation of a generic stream (SpecAudio)              *)
(***************************************************************************)
LastWasChunk == ret.op = "process_audio_chunk"

\* C4 (as claimed): a stream whose every chunk has RMS energy below the
\* silence threshold never yields a ready segment.
C4_RmsSilentNeverReady == (LastWasChunk /\ mon.all_rms_silent) => ~ret.should

\* C4 (amended): a stream whose every chunk has RMS energy below the silence
\* threshold and whose resampled peak amplitude also stays below it never
\* yields a ready segment, however many chunks are fed.
C4_QuietNeverReady ==
    (LastWasChunk /\ mon.all_rms_silent /\ mon.all_peak_silent) => ~ret.should

\* the gates were met on an all-quiet stream and the accumulator was discarded
C4_Witness ==
    /\ LastWasChunk /\ ret.branch = "discarded"
    /\ mon.all_rms_silent /\ mon.all_peak_silent

\* the run has met both gates: silence total and accumulated bytes
RunMet == SilenceGate(cfg, mon.run.silent) /\ LengthGate(cfg, mon.run.bytes)

RunExactlyOne ==
    IF RunMet THEN mon.run.events = 1 /\ mon.run.copy_ok ELSE mon.run.events = 0

\* C5 (as claimed): a run of above-threshold chunks followed by below-threshold
\* (RMS) chunks, begun on an empty accumulator, yields exactly one ready event
\* once both gates are met, carrying exactly the bytes appended since the last
\* reset, and no second event for the remaining chunks of the run.
C5_RunExactlyOneReady == mon.run.phase = "silent" => RunExactlyOne

\* C5 (amended): the same, for a run whose below-threshold chunks also have
\* their peak amplitude below the threshold.
C5_QuietRunExactlyOneReady ==
    (mon.run.phase = "silent" /\ mon.run.quiet) => RunExactlyOne

\* after the event of a quiet run the flag was cleared and the rest of the run
\* met the gates again, and was discarded
C5_Witness ==
    /\ mon.run.phase = "silent" /\ mon.run.quiet /\ mon.run.events = 1
    /\ LastWasChunk /\ ret.branch = "discarded"

\* the state of the call before the step, and what the chunk makes of it
PreState(call) == IF call \in DOMAIN call_states THEN call_states[call] ELSE FreshState
PreBuf(call, d) == Append(PreState(call).audio_buffer, d)
PreSilent(call, d) ==
    IF d.rms < cfg.silence_threshold
    THEN PreState(call).silent_duration + Samples(d) ELSE 0

\* C6: when the silence gate and the length gate are both met but the peak of
\* the whole accumulated buffer is below the threshold, the accumulator is
\* emptied, the silence duration zeroed, the flag left clear and nothing is
\* dispatched.
C6_SilentBufferDiscarded ==
    [][ (/\ ret'.op = "process_audio_chunk"
         /\ ~PreState(ret'.call).is_processing
         /\ WellFormed(ret'.data)
         /\ ~FromBufferRaises(BufLen(PreBuf(ret'.call, ret'.data)))
         /\ SilenceGate(cfg, PreSilent(ret'.call, ret'.data))
         /\ LengthGate(cfg, BufLen(PreBuf(ret'.call, ret'.data)))
         /\ BufPeak(PreBuf(ret'.call, ret'.data)) < cfg.silence_threshold)
        => (/\ call_states'[ret'.call] = FreshState
            /\ ~ret'.should
            /\ ret'.buffer_copy = None) ]_vars

C6_Witness ==
    /\ LastWasChunk /\ ret.branch = "discarded"
    /\ call_states[ret.call] = FreshState

\* C9: while the dispatch flag is set every chunk is dropped (not ready,
\* accumulator, silence duration and flag unchanged), and finish_processing
\* clears the flag.
C9_DroppedWhileProcessing ==
    [][ /\ (/\ ret'.op = "process_audio_chunk"
            /\ ret'.call \in DOMAIN call_states
            /\ call_states[ret'.call].is_processing)
           => (/\ call_states' = call_states
               /\ ~ret'.should /\ ret'.buffer_copy = None)
        /\ ret'.op = "finish_processing"
           => ~call_states'[ret'.call].is_processing ]_vars

C9_Witness ==
    /\ LastWasChunk /\ ret.branch = "dropped"
    /\ call_states[ret.call].is_processing


(***************************************************************************)
(* SpecScenario: the default configuration fed 100 ms chunks, a number of  *)
(* above-threshold chunks and then below-threshold chunks, while the       *)
(* consumer may finish at any time.                                        *)
(***************************************************************************)
\* bytes of 100 ms of input: original_sample_rate / 10 samples of int16
ScenarioBytes == (DefaultConfig.original_sample_rate \div 10) * bytes_per_sample * channels

ScenarioCap == MaxLoud + MaxSilent + 1

ScenarioInit ==
    /\ cfg = DefaultConfig
    /\ call_states = initialize_call_state(<<>>, AudioCall)
    /\ ret = RetInit
    /\ mon = MonInit
    /\ TMInitState
    /\ NoSocket
    /\ NoBot

ScenarioFeedLoud ==
    /\ \/ mon.run.phase = "loud"
       \/ mon.run.phase = "off" /\ ret.op = "init"
    /\ mon.run.loud < MaxLoud
    /\ ProcessChunk(AudioCall, Loud(ScenarioBytes), ScenarioCap)

ScenarioFeedSilent ==
    /\ mon.run.phase \in {"loud", "silent"}
    /\ mon.run.nsil < MaxSilent
    /\ ProcessChunk(AudioCall, Quiet(ScenarioBytes), ScenarioCap)

ScenarioFinish ==
    /\ call_states[AudioCall].is_processing
    /\ FinishProcessing(AudioCall)

ScenarioNext ==
    /\ \/ ScenarioFeedLoud
       \/ ScenarioFeedSilent
       \/ ScenarioFinish
    /\ UNCHANGED <<tmVars, sm, unit, bot>>

SpecScenario == ScenarioInit /\ [][ScenarioNext]_vars

\* duration in ms of nbytes of input audio
InputMs(nbytes) ==
    ((nbytes \div (bytes_per_sample * channels)) * 1000) \div cfg.original_sample_rate

\* within half a chunk (50 ms) of the target
About(ms, target) == ms - target < 50 /\ target - ms < 50

InRun == mon.run.phase \in {"loud", "silent"}

\* number of 100 ms chunks of silence that make 1500 ms
SilenceChunks == DefaultConfig.silence_duration_ms \div 100

EmptyAfterReady ==
    (LastWasChunk /\ ret.should) => call_states[AudioCall].audio_buffer = <<>>

\* C7 (as claimed): 3 s above threshold then 1600 ms below, in 100 ms chunks:
\* no ready signal before 1500 ms of silence, then exactly one ready event
\* holding about 4.6 s of audio, and an empty accumulator right after it.
C7_Ready46 ==
    (InRun /\ mon.run.loud = 30 /\ mon.run.nsil <= 16)
    => /\ mon.run.nsil < SilenceChunks => mon.run.events = 0
       /\ mon.run.nsil >= SilenceChunks
            => mon.run.events = 1 /\ About(InputMs(mon.run.seg), 4600)
       /\ EmptyAfterReady

\* C7 (amended): the one ready event fires on the 15th silent chunk and holds
\* the 4.5 s fed so far (45 chunks, 432000 input bytes); the 16th silent chunk
\* is not part of it.
C7_Ready45 ==
    (InRun /\ mon.run.loud = 30 /\ mon.run.nsil <= 16)
    => /\ mon.run.nsil < SilenceChunks => mon.run.events = 0
       /\ mon.run.nsil >= SilenceChunks
            => /\ mon.run.events = 1
               /\ InputMs(mon.run.seg) = 4500
               /\ mon.run.seg = 45 * ScenarioBytes
       /\ EmptyAfterReady

C7_Witness ==
    /\ mon.run.phase = "silent" /\ mon.run.loud = 30 /\ mon.run.nsil = 16
    /\ mon.run.events = 1

NotDone(S) == {t \in S : ~Done(tasks[t])}

\* asyncio.gather(*tasks_to_cancel, return_exceptions=True) around tasks whose
\* wrapper logs the exceptions of the callback: whatever the outcomes of the
\* gathered tasks, no exception is raised into the receive loop
return_exceptions == TRUE
LoopSurvives(S) == \A t \in S : tasks[t].outcome = "failed" => return_exceptions

\* `await asyncio.gather(*tasks_to_cancel, return_exceptions=True)` returns
\* when every gathered task is done
GatherReturnsAtOnce(S) == TRUE
GatherReturns(S) == NotDone(S) = {}

\* the pending tasks are waited for without being cancelled
CancelNone(ts, S) == ts
\* for task in tasks_to_cancel: task.cancel()
CancelAll(ts, S) == [t \in DOMAIN ts |-> IF t \in S THEN Cancel(ts[t]) ELSE ts[t]]

\* asyncio.create_task(self._handle_processed_audio(..)) or
\* asyncio.create_task(self._safe_on_receive_call(..)), added to the pending set
SMSpawn(ts, m, call, kind) ==
    [tasks |-> Append(ts, NewTask(call, None, kind, 0, FALSE)),
     sm |-> [m EXCEPT !.pending = @ \cup {Len(ts) + 1}]]

\* `await self._cancel_pending_on_receive_tasks(exclude_current=False)` followed
\* by the creation of a task of the given kind: without suspension when no
\* pending task is alive, through asyncio.gather otherwise
SMCancelThenSpawn(m, call, kind) ==
    LET to_cancel == NotDone(m.pending)
    IN  IF to_cancel = {}
        THEN SMSpawn(tasks, m, call, kind)
        ELSE [tasks |-> CancelAll(tasks, to_cancel),
              sm |-> [m EXCEPT !.receive_task = "gather",
                               !.loop_wait = to_cancel, !.loop_next = kind]]

\* the finally clause of _receive_loop, lines 212-219
SMLoopFinally(ts, m) ==
    LET to_cancel == {t \in m.pending : ~Done(ts[t])}
    IN  IF to_cancel = {}
        THEN [tasks |-> ts,
              sm |-> [m EXCEPT !.websocket = None, !.receive_task = "done",
                               !.loop_wait = {}, !.loop_next = None,
                               !.loop_cancel = FALSE]]
        ELSE [tasks |-> CancelAll(ts, to_cancel),
              sm |-> [m EXCEPT !.receive_task = "final_gather",
                               !.loop_wait = to_cancel, !.loop_next = None,
                               !.loop_cancel = FALSE]]

\* 4-byte chunks of 1 s; one silent chunk meets the silence gate, two chunks
\* the length gate
QuickConfig ==
    [original_sample_rate |-> 2, target_sample_rate |-> 2,
     silence_threshold |-> 20, silence_duration_ms |-> 1000,
     min_buffer_duration_ms |-> 1000]

SMChunks == {Quiet(4), Loud(4)}

\* the accumulator still has room in the model
SMRoom(call) ==
    call \in DOMAIN call_states => Len(call_states[call].audio_buffer) < MaxSMBuf
\* client_left: a client_left message of a user; client_left_other: one
\* whose clientType is anything else (or absent); json: any other message
TextFrames == {"json", "client_left", "client_left_other"}

\* SocketManager.__init__ has run for the call
SMInit ==
    /\ cfg = QuickConfig
    /\ call_states = initialize_call_state(<<>>, AudioCall)
    /\ ret = RetInit
    /\ mon = MonInit
    /\ TMInitState
    /\ NoSocket
    /\ NoBot

\* connect(on_receive): the connection is opened, the receive loop started
SMConnect(cb) ==
    /\ sm.conn = "none" /\ sm.disc = "idle"
    /\ sm' = [sm EXCEPT !.websocket = "ws", !.conn = "OPEN", !.on_receive = cb,
                        !.receive_task = "recv"]
    /\ UNCHANGED <<apVars, tmVars>>

\* (variant) frames are taken off the connection while the loop still waits
\* for the tasks it cancelled
SMCanReceiveEarly ==
    /\ sm.receive_task \in {"recv", "gather"} /\ ~sm.loop_cancel
    /\ sm.conn \in {"OPEN", "CLOSING"}

\* the loop is waiting for a frame and a frame can still be delivered
SMCanReceive ==
    /\ sm.receive_task = "recv" /\ ~sm.loop_cancel
    /\ sm.conn \in {"OPEN", "CLOSING"}

\* the farewell of _handle_client_left, lines 119-125: send_message on the
\* connection; on a connection that is closing or closed it raises and the
\* exception is logged
Farewell(m) ==
    IF m.websocket # None /\ m.conn = "OPEN" THEN "sent" ELSE "failed"

\* asyncio.create_task(self._delayed_disconnect(delay=1.0)), line 128: the
\* teardown becomes a task of its own, sleeping
AwaitTeardown(m) == [m EXCEPT !.delayed = TRUE, !.receive_task = "grace"]
ScheduleTeardown(m) == [m EXCEPT !.delayed = TRUE]

\* data.get('type') == 'client_left', line 190
IsClientLeft(f) == f \in {"client_left", "client_left_other"}
\* message_data.get('data', {}).get('clientType'), line 111
ClientType(f) == IF f = "client_left" THEN "user" ELSE None

\* every departing client counts as a user
IsUserAlways(client_type) == TRUE
\* client_type == 'user', line 114
IsUser(client_type) == client_type = "user"

\* _handle_client_left, lines 106-128
handle_client_left_strict(m, client_type) ==
    IF ~m.auto_disconnect_enabled \/ ~IsUser(client_type) THEN m
    ELSE IF Farewell(m) = "sent"
         THEN ScheduleTeardown([m EXCEPT !.farewell = "sent"])
         ELSE [m EXCEPT !.farewell = "failed"]
handle_client_left(m, client_type) ==
    IF ~m.auto_disconnect_enabled \/ ~IsUser(client_type) THEN m
    ELSE ScheduleTeardown([m EXCEPT !.farewell = Farewell(m)])

\* set_auto_disconnect(enabled), lines 74-77
SMSetAutoDisconnect(enabled) ==
    /\ sm.auto_disconnect_enabled # enabled
    /\ sm' = [sm EXCEPT !.auto_disconnect_enabled = enabled]
    /\ UNCHANGED <<apVars, tmVars>>

\* one binary frame, lines 152-168
SMAudioFrame(call, d) ==
    /\ SMCanReceive
    /\ SMRoom(call)
    /\ LET o == process_audio_chunk(cfg, call_states, call, d)
           dispatch == o.should /\ BufLen(o.buffer_copy) > 0 /\ sm.on_receive
           r == IF dispatch
                THEN SMCancelThenSpawn(sm, call, "processed_audio")
                ELSE [tasks |-> tasks, sm |-> sm]
       IN  /\ dispatch => Len(tasks) < MaxSMTasks
           /\ call_states' = o.cs
           /\ tasks' = r.tasks
           /\ sm' = r.sm
    /\ UNCHANGED <<cfg, ret, mon, active_tasks, task_locks, callers>>

\* one text frame, lines 180-205; a client_left frame goes through
\* _handle_client_left first (lines 106-128)
\* the task created for the frame is recorded with the given kind
SMTextFrameAs(call, f, kind) ==
    /\ SMCanReceive
    /\ LET m1 == IF IsClientLeft(f) THEN handle_client_left(sm, ClientType(f))
                 ELSE sm
           r == IF sm.on_receive
                THEN SMCancelThenSpawn(m1, call, kind)
                ELSE [tasks |-> tasks, sm |-> m1]
       IN  /\ sm.on_receive => Len(tasks) < MaxSMTasks
           /\ tasks' = r.tasks
           /\ sm' = r.sm
    /\ UNCHANGED <<apVars, active_tasks, task_locks, callers>>

\* message_type="json" for every text frame, line 202
SMTextFrame(call, f) == SMTextFrameAs(call, f, "json")

\* asyncio.gather returns in the loop: the cancelled tasks leave the pending
\* set and the new task is created; a cancellation of the receive task
\* (or an exception out of gather) is raised instead, at once, and the
\* finally clause runs
SMGatherDone(call) ==
    /\ sm.receive_task = "gather"
    /\ GatherReturns(sm.loop_wait) \/ sm.loop_cancel
    /\ LET r == IF sm.loop_cancel \/ ~LoopSurvives(sm.loop_wait)
                THEN SMLoopFinally(tasks, sm)
                ELSE SMSpawn(tasks,
                             [sm EXCEPT !.pending = @ \ sm.loop_wait,
                                        !.receive_task = "recv",
                                        !.loop_wait = {}, !.loop_next = None],
                             call, sm.loop_next)
       IN  tasks' = r.tasks /\ sm' = r.sm
    /\ UNCHANGED <<apVars, active_tasks, task_locks, callers>>

\* the connection is closed: by the peer, or by the end of the closing
\* handshake started by disconnect()
SMConnectionClosed ==
    /\ sm.conn \in {"OPEN", "CLOSING"}
    /\ sm' = [sm EXCEPT !.conn = "CLOSED"]
    /\ UNCHANGED <<apVars, tmVars>>

\* the iteration over the websocket ends (connection closed, or the receive
\* task cancelled): the finally clause runs
SMLoopEnd ==
    /\ sm.receive_task = "recv"
    /\ sm.conn = "CLOSED" \/ sm.loop_cancel
    /\ LET r == SMLoopFinally(tasks, sm)
       IN  tasks' = r.tasks /\ sm' = r.sm
    /\ UNCHANGED <<apVars, active_tasks, task_locks, callers>>

\* asyncio.gather returns in the finally clause; a cancellation of the receive
\* task is raised there at once and skips lines 216-219
SMFinalGatherDone ==
    /\ sm.receive_task = "final_gather"
    /\ GatherReturns(sm.loop_wait) \/ sm.loop_cancel
    /\ sm' = [sm EXCEPT !.pending = IF sm.loop_cancel THEN @ ELSE @ \ sm.loop_wait,
                        !.websocket = IF sm.loop_cancel THEN @ ELSE None,
                        !.receive_task = "done", !.loop_wait = {},
                        !.loop_cancel = FALSE]
    /\ UNCHANGED <<apVars, tmVars>>

(***************************************************************************)
(* The tasks of the receive loop: _handle_processed_audio (kind            *)
(* processed_audio) and _safe_on_receive_call (kind json), both around the *)
(* callback, which suspends at least once.                                 *)
(***************************************************************************)
\* the tasks of the receive loop by message_type; where the payload of a
\* text frame is followed (SpecFrames) the task of a client_left frame is
\* recorded with the type of its frame instead of json
SMKinds == {"processed_audio"} \cup TextFrames

\* the finally clauses that run when a task that has started ends:
\* pending_on_receive_tasks.discard(current_task), and finish_processing
\* for _handle_processed_audio
SMTaskFinally(call, t) ==
    /\ sm' = [sm EXCEPT !.pending = @ \ {t}]
    /\ call_states' = IF tasks[t].kind = "processed_audio"
                      THEN finish_processing(call_states, call)
                      ELSE call_states

\* first step of a task: a task cancelled before it ends without running
\* any of its body; otherwise it runs up to the first await of the callback
SMTaskStart(t) ==
    /\ tasks[t].kind \in SMKinds /\ tasks[t].state = "scheduled"
    /\ tasks' = [tasks EXCEPT ![t] =
                    IF @.must_cancel THEN Finished(@, "cancelled")
                    ELSE [@ EXCEPT !.state = "running", !.started = TRUE]]
    /\ UNCHANGED <<apVars, active_tasks, task_locks, callers, sm>>

\* the callback returns, or raises an exception that is logged
SMTaskEnd(call, t) ==
    /\ tasks[t].kind \in SMKinds /\ tasks[t].state = "running"
    /\ ~tasks[t].must_cancel /\ sm.others_by # t
    /\ \E o \in {"ok", "failed"} : tasks' = [tasks EXCEPT ![t] = Finished(@, o)]
    /\ SMTaskFinally(call, t)
    /\ UNCHANGED <<cfg, ret, mon, active_tasks, task_locks, callers>>

\* CancelledError is raised inside the callback (also at the gather of
\* cancel_other_on_receive_tasks, which is given up): it propagates and is
\* re-raised by the wrappers, or the callback swallows it and goes on
SMTaskCancelled(call, t) ==
    /\ tasks[t].kind \in SMKinds /\ tasks[t].state = "running"
    /\ tasks[t].must_cancel
    /\ LET m == IF sm.others_by = t
                THEN [sm EXCEPT !.others_by = 0, !.others_wait = {}]
                ELSE sm
       IN  \/ /\ tasks' = [tasks EXCEPT ![t] = Finished(@, "cancelled")]
              /\ sm' = [m EXCEPT !.pending = @ \ {t}]
              /\ call_states' = IF tasks[t].kind = "processed_audio"
                                THEN finish_processing(call_states, call)
                                ELSE call_states
           \/ /\ tasks' = [tasks EXCEPT ![t].must_cancel = FALSE]
              /\ sm' = m
              /\ UNCHANGED call_states
    /\ UNCHANGED <<cfg, ret, mon, active_tasks, task_locks, callers>>

\* the callback of task t calls cancel_other_on_receive_tasks, lines 102-104:
\* the other pending tasks that are not done are cancelled and gathered;
\* with none of them the call returns without suspending
SMCancelOthers(t) ==
    /\ tasks[t].kind \in SMKinds /\ tasks[t].state = "running"
    /\ ~tasks[t].must_cancel /\ sm.others_by = 0
    /\ LET to_cancel == NotDone(sm.pending \ {t})
       IN  IF to_cancel = {}
           THEN UNCHANGED <<tasks, sm>>
           ELSE /\ tasks' = CancelAll(tasks, to_cancel)
                /\ sm' = [sm EXCEPT !.others_by = t, !.others_wait = to_cancel]
    /\ UNCHANGED <<apVars, active_tasks, task_locks, callers>>

\* asyncio.gather returns in cancel_other_on_receive_tasks, line 100
SMOthersGathered ==
    /\ sm.others_by # 0
    /\ GatherReturns(sm.others_wait)
    /\ sm' = [sm EXCEPT !.pending = @ \ sm.others_wait,
                        !.others_by = 0, !.others_wait = {}]
    /\ UNCHANGED <<apVars, tmVars>>

(***************************************************************************)
(* disconnect(), lines 250-262, called by the application or by            *)
(* _delayed_disconnect                                                     *)
(***************************************************************************)
\* lines 255-262, after the pending tasks were dealt with: the state of the
\* call is removed, then the connection closed if there is one
SMDisconnectRest(ts, m, cs, call) ==
    IF m.websocket # None /\ m.conn # "CLOSED"
    THEN [tasks |-> ts, cs |-> cleanup_call_state(cs, call),
          sm |-> [m EXCEPT !.disc = "closing", !.disc_wait = {},
                           !.conn = "CLOSING"]]
    ELSE [tasks |-> ts, cs |-> cleanup_call_state(cs, call),
          sm |-> [m EXCEPT !.disc = "returned", !.disc_wait = {},
                           !.loop_cancel =
                               m.receive_task \in {"recv", "gather", "final_gather"}]]

SMDisconnect(call, by) ==
    /\ sm.disc \in {"idle", "returned"}
    /\ by = "delayed" => sm.delayed
    /\ LET m == IF by = "delayed"
                THEN [sm EXCEPT !.delayed = FALSE, !.farewell = None]
                ELSE sm
           to_cancel == NotDone(m.pending)
           r == IF to_cancel = {}
                THEN SMDisconnectRest(tasks, m, call_states, call)
                ELSE [tasks |-> CancelAll(tasks, to_cancel), cs |-> call_states,
                      sm |-> [m EXCEPT !.disc = "gather", !.disc_wait = to_cancel]]
       IN  tasks' = r.tasks /\ call_states' = r.cs /\ sm' = r.sm
    /\ UNCHANGED <<cfg, ret, mon, active_tasks, task_locks, callers>>

\* asyncio.gather returns in disconnect()
SMDisconnectGathered(call) ==
    /\ sm.disc = "gather"
    /\ GatherReturns(sm.disc_wait)
    /\ LET r == SMDisconnectRest(tasks, [sm EXCEPT !.pending = @ \ sm.disc_wait],
                                 call_states, call)
       IN  tasks' = r.tasks /\ call_states' = r.cs /\ sm' = r.sm
    /\ UNCHANGED <<cfg, ret, mon, active_tasks, task_locks, callers>>

\* websocket.close() returns: the receive task is cancelled, disconnect returns
SMDisconnectClosed ==
    /\ sm.disc = "closing"
    /\ sm.conn = "CLOSED"
    /\ sm' = [sm EXCEPT !.disc = "returned",
                        !.loop_cancel =
                            sm.receive_task \in {"recv", "gather", "final_gather"}]
    /\ UNCHANGED <<apVars, tmVars>>

SMNext ==
    /\ \/ \E cb \in BOOLEAN : SMConnect(cb)
       \/ \E d \in SMChunks : SMAudioFrame(AudioCall, d)
       \/ \E f \in TextFrames : SMTextFrame(AudioCall, f)
       \/ SMGatherDone(AudioCall)
       \/ SMConnectionClosed
       \/ SMLoopEnd
       \/ SMFinalGatherDone
       \/ \E t \in TaskIds : SMTaskStart(t)
       \/ \E t \in TaskIds : SMTaskEnd(AudioCall, t)
       \/ \E t \in TaskIds : SMTaskCancelled(AudioCall, t)
       \/ \E t \in TaskIds : SMCancelOthers(t)
       \/ SMOthersGathered
       \/ \E enabled \in BOOLEAN : SMSetAutoDisconnect(enabled)
       \/ \E by \in {"caller", "delayed"} : SMDisconnect(AudioCall, by)
       \/ SMDisconnectGathered(AudioCall)
       \/ SMDisconnectClosed
    /\ UNCHANGED <<unit, bot>>

SpecSM == SMInit /\ [][SMNext]_vars

\* the flag of the call is set
FlagSet(call) ==
    call \in DOMAIN call_states /\ call_states[call].is_processing

\* a unit of work for a ready segment exists and has not terminated, or the
\* receive loop is about to create it
SegmentInHand(call) ==
    \/ \E t \in TaskIds : tasks[t].kind = "processed_audio" /\ tasks[t].call = call
                          /\ ~Done(tasks[t])
    \/ sm.receive_task = "gather" /\ sm.loop_next = "processed_audio"

\* C3: whenever a ready segment has set is_processing and was handed to a
\* unit of work, the flag is cleared in every outcome of that unit (normal
\* end, failure, cancellation at any point after the hand-off): the flag is
\* set only while a unit of work for the segment has yet to terminate
C3_FlagClearedByUnit ==
    (sm.on_receive /\ FlagSet(AudioCall)) => SegmentInHand(AudioCall)

\* the unit of work of a ready segment was cancelled before its first step,
\* terminated, and the flag is still set with nothing left to clear it
C3_Stuck ==
    /\ sm.on_receive /\ FlagSet(AudioCall) /\ sm.disc = "idle"
    /\ sm.receive_task = "recv" /\ sm.conn = "OPEN"
    /\ \E t \in TaskIds : /\ tasks[t].kind = "processed_audio"
                          /\ Done(tasks[t]) /\ ~tasks[t].started
    /\ \A t \in TaskIds : tasks[t].kind = "processed_audio" => Done(tasks[t])

\* C10: when disconnect() returns, every task of the session has terminated
\* and call_states holds no entry for the session
C10_TeardownLeavesNothing ==
    [][(sm.disc # "returned" /\ sm'.disc = "returned") =>
          /\ AudioCall \notin DOMAIN call_states'
          /\ \A t \in 1 .. Len(tasks') : Done(tasks'[t])]_vars

\* disconnect() has returned and call_states holds an entry for the session
C10_EntryAfterTeardown ==
    sm.disc = "returned" /\ AudioCall \in DOMAIN call_states

\* C11: a second disconnect() of a session whose first disconnect() has
\* returned is a no-op: it leaves the tasks and call_states as they were
C11_SecondTeardownNoOp ==
    [][(sm.disc = "returned" /\ SMDisconnect(AudioCall, "caller")) =>
          (call_states' = call_states /\ tasks' = tasks)]_vars

\* a second disconnect() starts while call_states holds an entry for the
\* session that the first one had removed
C11_SecondTeardownActs ==
    /\ sm.disc = "returned"
    /\ AudioCall \in DOMAIN call_states
    /\ ENABLED SMDisconnect(AudioCall, "caller")

\* C12: when the receive loop terminates, every task pending for the session
\* has been cancelled and awaited and call_states holds no entry for the
\* session
C12_LoopEndTearsDown ==
    [][(sm.receive_task # "done" /\ sm'.receive_task = "done") =>
          /\ \A t \in sm.pending : Done(tasks'[t])
          /\ AudioCall \notin DOMAIN call_states']_vars

\* the loop has terminated on a closed transport, no disconnect() was ever
\* called, and call_states still holds the entry of the session
C12_EntryAfterLoopEnd ==
    /\ sm.receive_task = "done" /\ sm.conn = "CLOSED" /\ sm.disc = "idle"
    /\ AudioCall \in DOMAIN call_states

\* the step in which cleanup_call(call) of caller k returns
CleanupReturns(k, call) ==
    /\ callers'[k].pc = "idle"
    /\ \/ /\ callers[k].pc # "idle"
          /\ callers[k].op = "cleanup_call" /\ callers[k].call = call
       \/ /\ callers[k].pc = "idle"
          /\ \E slot \in Slots, order \in SlotOrders :
                TMCall(k, "cleanup_call", call, slot, order)

\* C13: after cleanup_call(session) returns the TaskManager holds no
\* bookkeeping for the session: no entry in active_tasks, none in task_locks
C13_NoBookkeepingLeft ==
    [][\A k \in Callers, call \in Calls :
          CleanupReturns(k, call) =>
              /\ call \notin DOMAIN active_tasks'
              /\ call \notin DOMAIN task_locks']_vars

\* tasks of the session were started and have all terminated, nobody is
\* inside the TaskManager, active_tasks has no entry for the session and
\* task_locks still has one
C13_LockLeftBehind ==
    /\ Len(tasks) > 0 /\ \A t \in TaskIds : Done(tasks[t]) /\ tasks[t].cancel_req
    /\ \A k \in Callers : callers[k].pc = "idle"
    /\ \E call \in Calls : /\ call \notin DOMAIN active_tasks
                           /\ call \in DOMAIN task_locks

\* C14: when decoding or resampling a chunk fails, process_audio_chunk
\* reports no segment and leaves the state of the session as it was before
\* the chunk: accumulator, silence duration and dispatch flag unchanged
C14_ErrorLeavesState ==
    [][(ret'.op = "process_audio_chunk" /\ ret'.branch = "error") =>
          /\ ~ret'.should
          /\ call_states'[AudioCall] = PreState(AudioCall)]_vars

\* a chunk whose length is not a multiple of the sample width was rejected
\* and is the last element of the accumulator
C14_BadChunkKept ==
    /\ LastWasChunk /\ ret.branch = "error" /\ ~ret.should
    /\ FromBufferRaises(ret.data.len)
    /\ LET buf == call_states[AudioCall].audio_buffer
       IN  buf # <<>> /\ buf[Len(buf)] = ret.data

(***************************************************************************)
(* SpecParts: the two supervisors side by side, each in a behaviour of its *)
(* own: a TaskManager called by several coroutines, or a SocketManager     *)
(* with its receive loop (the SocketManager does not use the TaskManager). *)
(***************************************************************************)
PartsInit == TMInit \/ SMInit

PartsNext ==
    \/ cfg = DefaultConfig /\ TMNext
    \/ cfg = QuickConfig /\ SMNext

SpecParts == PartsInit /\ [][PartsNext]_vars

\* the receive loop has left the iteration over the websocket
LoopOver == sm.receive_task \in {"final_gather", "done"}

\* C15: a unit of work that ends in failure never makes create_task,
\* cancel_task or cleanup_call raise, and never terminates the receive loop:
\* the loop ends only on a closed transport or through disconnect()
C15_FailureContained ==
    /\ \A k \in Callers : ~callers[k].raised
    /\ LoopOver => (sm.conn = "CLOSED" \/ sm.disc # "idle")

\* a cancelled occupant ended with an exception of its own while create_task
\* awaited it, and create_task went on to start the successor
C15_Witness ==
    \E t \in TaskIds :
        /\ tasks[t].pred_live
        /\ tasks[tasks[t].pred].outcome = "failed"

\* a task of the receive loop ended in failure and the loop, its transport
\* open, has since dispatched the next task
C15_LoopGoesOn ==
    /\ sm.conn = "OPEN" /\ sm.receive_task = "recv" /\ sm.disc = "idle"
    /\ \E t, u \in TaskIds : /\ t < u /\ tasks[t].kind \in SMKinds
                             /\ tasks[t].outcome = "failed"
                             /\ tasks[u].kind \in SMKinds

(***************************************************************************)
(* AudioTaskHandler._transcribe_and_respond_task, one run.  A send is one  *)
(* step: it puts the message on the channel or raises.  Transcriber and    *)
(* EdgeTTSService log their own exceptions and return an empty result.     *)
(***************************************************************************)

\* the awaits of the unit, in program order, with the message each send emits
SendMessage ==
    [send_cancel_audio |-> "cancel_audio", send_transcription |-> "transcription",
     send_wait_text |-> "wait_text", send_wait_audio |-> "wait_audio",
     send_response |-> "response", send_audio |-> "audio",
     send_error |-> "error"]

SendPcs == DOMAIN SendMessage
Awaits == SendPcs \cup {"transcribe", "wait_tts", "tts"}

\* the transcription is not sent: cancel_audio is followed by the wait message
AfterSendSkipsTranscription(u) ==
    CASE u.pc = "send_cancel_audio" -> "wait_tts"
      [] u.pc = "send_transcription" -> "wait_tts"
      [] u.pc = "send_wait_text" -> IF u.wait_audio THEN "send_wait_audio" ELSE "query"
      [] u.pc = "send_wait_audio" -> "query"
      [] u.pc = "send_response" -> "tts"
      [] u.pc = "send_audio" -> "done"
      [] u.pc = "send_error" -> "done"
\* where the unit goes after a send that succeeded
AfterSend(u) ==
    CASE u.pc = "send_cancel_audio" -> "send_transcription"
      [] u.pc = "send_transcription" -> "wait_tts"
      [] u.pc = "send_wait_text" -> IF u.wait_audio THEN "send_wait_audio" ELSE "query"
      [] u.pc = "send_wait_audio" -> "query"
      [] u.pc = "send_response" -> "tts"
      [] u.pc = "send_audio" -> "done"
      [] u.pc = "send_error" -> "done"

\* the task ends: finally -> finish_processing (lines 149-151)
UnitFinish(call, u, outcome) ==
    /\ unit' = [u EXCEPT !.pc = "done", !.outcome = outcome, !.must_cancel = FALSE]
    /\ call_states' = finish_processing(call_states, call)

\* the unit goes on to its next await
UnitGoes(u, pc) ==
    /\ unit' = [u EXCEPT !.pc = pc]
    /\ UNCHANGED call_states

\* an exception raised in the try block, lines 142-148: the error message is
\* sent next
UnitFails(u, what) ==
    UnitGoes([u EXCEPT !.failures = @ \cup {what}], "send_error")

\* CancelledError is handled like any other exception
CancelledAsFailure(call, u) == UnitFails([u EXCEPT !.must_cancel = FALSE], "cancelled")
\* except asyncio.CancelledError: raise (lines 139-141), then the finally clause
OnCancelled(call, u) == UnitFinish(call, u, "cancelled")

\* the supervisor's except clauses around `await task` (task_manager.py 49-52)
Verdict(outcome) ==
    IF outcome = "cancelled" THEN "info"
    ELSE IF outcome = "failed" THEN "error" ELSE None

\* a segment was reported ready (flag set) and handed to create_task
UnitInit ==
    /\ cfg = DefaultConfig
    /\ call_states = Put(<<>>, AudioCall, ReadyState(FreshState))
    /\ ret = RetInit
    /\ mon = MonInit
    /\ TMInitState
    /\ sm = SMNew
    /\ NoBot
    /\ \E q \in BOOLEAN : unit = [NoUnit EXCEPT !.pc = "scheduled", !.quiet = q]

\* first step of the task: a task cancelled before it ends without running
\* its body; otherwise it resamples and awaits the transcription
UnitBegin ==
    /\ unit.pc = "scheduled"
    /\ unit' = IF unit.must_cancel
               THEN [unit EXCEPT !.pc = "done", !.outcome = "cancelled",
                                 !.must_cancel = FALSE]
               ELSE [unit EXCEPT !.pc = "transcribe", !.started = TRUE]
    /\ UNCHANGED call_states

\* CancelledError is raised at the await the unit is suspended at
UnitCancelDelivered(call) ==
    /\ unit.pc \in Awaits /\ unit.must_cancel
    /\ OnCancelled(call, unit)

\* transcribe_audio returns (lines 89-102): text, no text, or no text because
\* the transcriber failed; no text on a quiet segment is silence; without
\* text nothing is sent
UnitTranscribed(call, res) ==
    /\ unit.pc = "transcribe" /\ ~unit.must_cancel
    /\ LET u == IF res = "failed"
                THEN [unit EXCEPT !.failures = @ \cup {"transcription"}]
                ELSE unit
       IN  IF res = "text"
           THEN UnitGoes(u, "send_cancel_audio")
           ELSE UnitFinish(call, u, "ok")

\* a send_message / websocket.send returns or raises
UnitSent(call, ok) ==
    /\ unit.pc \in SendPcs /\ ~unit.must_cancel
    /\ IF ok
       THEN LET u == [unit EXCEPT !.outbox = Append(@, SendMessage[unit.pc])]
            IN  IF AfterSend(unit) = "done"
                THEN UnitFinish(call, u, "ok")
                ELSE UnitGoes(u, AfterSend(unit))
       ELSE IF unit.pc = "send_error"
            THEN UnitFinish(call, [unit EXCEPT !.failures = @ \cup {"send_error"}],
                            "failed")
            ELSE UnitFails(unit, "send")

\* get_wait_message_audio returns (line 114): audio, or none (also when the
\* synthesis failed)
UnitWaitMessage(res) ==
    /\ unit.pc = "wait_tts" /\ ~unit.must_cancel
    /\ UnitGoes([unit EXCEPT !.wait_audio = (res = "audio"),
                             !.failures = IF res = "failed" THEN @ \cup {"tts"} ELSE @],
                "send_wait_text")

\* self.query_engine.query (line 125), synchronous: returns or raises
UnitQueried(ok) ==
    /\ unit.pc = "query"
    /\ IF ok THEN UnitGoes(unit, "send_response") ELSE UnitFails(unit, "query")

\* text_to_audio_bytes returns (lines 135-137)
UnitSynthesized(call, res) ==
    /\ unit.pc = "tts" /\ ~unit.must_cancel
    /\ LET u == IF res = "failed" THEN [unit EXCEPT !.failures = @ \cup {"tts"}]
                ELSE unit
       IN  IF res = "audio" THEN UnitGoes(u, "send_audio")
           ELSE UnitFinish(call, u, "ok")

\* a supervisor cancels the task and awaits it (task_manager.py 45-48)
UnitCancelledBySupervisor ==
    /\ unit.pc \notin {"none", "done"} /\ ~unit.awaited
    /\ unit' = [unit EXCEPT !.must_cancel = TRUE, !.awaited = TRUE]
    /\ UNCHANGED call_states

\* `await existing_task` returns in the supervisor (task_manager.py 49-52)
UnitAwaited ==
    /\ unit.awaited /\ unit.pc = "done" /\ unit.log = None
    /\ Verdict(unit.outcome) # None
    /\ unit' = [unit EXCEPT !.log = Verdict(unit.outcome)]
    /\ UNCHANGED call_states

Results == {"text", "empty", "failed"}
Synth == {"audio", "none", "failed"}

UnitNext ==
    /\ \/ UnitBegin
       \/ UnitCancelDelivered(AudioCall)
       \/ \E res \in Results : UnitTranscribed(AudioCall, res)
       \/ \E ok \in BOOLEAN : UnitSent(AudioCall, ok)
       \/ \E res \in Synth : UnitWaitMessage(res)
       \/ \E ok \in BOOLEAN : UnitQueried(ok)
       \/ \E res \in Synth : UnitSynthesized(AudioCall, res)
       \/ UnitCancelledBySupervisor
       \/ UnitAwaited
    /\ UNCHANGED <<cfg, ret, mon, tmVars, sm, bot>>

SpecUnit == UnitInit /\ [][UnitNext]_vars

\* the number of error notifications in a sequence of sent messages
RECURSIVE ErrorCount(_)
ErrorCount(box) ==
    IF box = <<>> THEN 0
    ELSE (IF Head(box) = "error" THEN 1 ELSE 0) + ErrorCount(Tail(box))

\* C16: whenever a downstream call made inside a unit of work fails
\* (transcription, query, speech synthesis, an outbound send), the unit sends
\* exactly one error notification and no exception escapes the task
C16_OneErrorNotification ==
    (unit.pc = "done" /\ unit.failures # {} /\ unit.outcome # "cancelled") =>
        (ErrorCount(unit.outbox) = 1 /\ unit.outcome = "ok")

\* the transcription failed and the unit ended normally without having sent
\* anything
C16_SilentFailure ==
    /\ unit.pc = "done" /\ unit.outcome = "ok"
    /\ unit.failures = {"transcription"}
    /\ unit.outbox = <<>>

\* an outbound send failed, the error notification could not be sent either,
\* and the exception left the task
C16_EscapedFailure ==
    /\ unit.pc = "done" /\ unit.outcome = "failed"
    /\ unit.failures = {"send", "send_error"}
    /\ ErrorCount(unit.outbox) = 0

\* C17: a unit of work that is cancelled re-raises the cancellation, so the
\* task ends cancelled, sends no error notification, and the supervisor that
\* cancelled it records no failure
C17_CancellationIsNormal ==
    [][/\ (unit.pc \in Awaits /\ unit.must_cancel /\ unit'.pc # unit.pc) =>
              /\ unit'.pc = "done" /\ unit'.outcome = "cancelled"
              /\ unit'.outbox = unit.outbox
       /\ unit'.outcome = "cancelled" =>
              /\ ErrorCount(unit'.outbox) = 0
              /\ unit'.log # "error"]_vars

\* the unit was cancelled in mid-flight, after the transcription went out,
\* and the supervisor has logged the cancellation
C17_Witness ==
    /\ unit.pc = "done" /\ unit.outcome = "cancelled" /\ unit.started
    /\ Len(unit.outbox) >= 2
    /\ unit.log = "info"

(***************************************************************************)
(* Auto-disconnect: the client_left frame of a user                        *)
(***************************************************************************)
\* the receive loop handles a client_left frame of a user while
\* auto-disconnect is enabled
ClientLeftHandled ==
    SMTextFrame(AudioCall, "client_left") /\ sm.auto_disconnect_enabled

FrameHandled ==
    \/ \E d \in SMChunks : SMAudioFrame(AudioCall, d)
    \/ \E f \in TextFrames : SMTextFrame(AudioCall, f)

\* C19: scheduling the delayed teardown does not hold the receive loop: after
\* the client_left frame the loop is back at waiting for the next frame (or
\* for the tasks it cancelled in order to dispatch this one) and disconnect()
\* has not been entered by it; the frames handled while the teardown sleeps
\* leave the teardown scheduled and run no part of disconnect() either
C19_GraceDoesNotBlock ==
    [][/\ ClientLeftHandled
            => /\ sm'.receive_task \in {"recv", "gather"}
               /\ sm'.delayed
               /\ sm'.disc = sm.disc /\ sm'.conn = sm.conn
       /\ (sm.delayed /\ FrameHandled)
            => /\ sm'.delayed
               /\ sm'.receive_task \in {"recv", "gather"}
               /\ sm'.disc = sm.disc /\ sm'.conn = sm.conn]_vars

\* while the teardown sleeps the loop has handled a binary frame and started
\* the task for its segment, after the task of the client_left frame
C19_Witness ==
    /\ sm.delayed /\ sm.receive_task = "recv"
    /\ Len(tasks) >= 2
    /\ tasks[Len(tasks)].kind = "processed_audio"
    /\ tasks[Len(tasks) - 1].kind = "json"

\* the tasks started by the receive loop that have not terminated
LiveDispatched ==
    {t \in TaskIds : tasks[t].kind \in SMKinds /\ ~Done(tasks[t])}

\* C20: at most one task started by the receive loop (for a text frame or for
\* a ready segment) is non-terminated at any time, whatever the interleaving
\* of the loop, disconnect() and cancel_other_on_receive_tasks; and a task is
\* started only when every task started before it is done
C20_OneDispatchedTask ==
    [][/\ Cardinality(LiveDispatched) <= 1
       /\ Cardinality(LiveDispatched') <= 1
       /\ Len(tasks') > Len(tasks) => LiveDispatched = {}]_vars

\* a second task has been started and runs, after the first was cancelled
\* while running and awaited
C20_Witness ==
    /\ Len(tasks) >= 2
    /\ tasks[1].started /\ tasks[1].outcome = "cancelled"
    /\ tasks[2].state = "running"
    /\ sm.pending = {2}

(***************************************************************************)
(* SpecSessions: one TaskManager used for two sessions.  ret describes the *)
(* last step: the caller and operation that moved, where the caller is     *)
(* afterwards (pc idle: the operation has returned) and what it returned.  *)
(***************************************************************************)
SessCalls == {"call_1", "call_2"}
SessCallers == {"k1", "k2"}

TMRet(k, op, call, slot, S) ==
    [op |-> op, call |-> call, slot |-> slot, caller |-> k, pc |-> S.me.pc,
     result |-> S.result]

\* a step of a task, not of a caller
TaskStep(t) ==
    [op |-> "task", call |-> tasks[t].call, slot |-> tasks[t].slot,
     caller |-> None, pc |-> None, result |-> None]

SessCall(k, op, call, slot, order) ==
    /\ op = "create_task" => Len(tasks) + CreatesInFlight < MaxSessTasks
    /\ TMCall(k, op, call, slot, order)
    /\ ret' = TMRet(k, op, call, slot, CallState(k, op, call, slot, order))

SessLockGranted(k) ==
    /\ TMLockGranted(k)
    /\ ret' = TMRet(k, callers[k].op, callers[k].call, callers[k].slot,
                    GrantState(k))

SessAwaitDone(k) ==
    /\ TMAwaitDone(k)
    /\ ret' = TMRet(k, callers[k].op, callers[k].call, callers[k].slot,
                    AwaitState(k))

SessNext ==
    /\ \/ \E k \in SessCallers, op \in Ops, call \in SessCalls, slot \in Slots,
             order \in SlotOrders : SessCall(k, op, call, slot, order)
       \/ \E k \in SessCallers : SessLockGranted(k)
       \/ \E k \in SessCallers : SessAwaitDone(k)
       \/ \E t \in TaskIds : UnitStart(t) /\ ret' = TaskStep(t)
       \/ \E t \in TaskIds : UnitEnd(t) /\ ret' = TaskStep(t)
       \/ \E t \in TaskIds : UnitCancelled(t) /\ ret' = TaskStep(t)
    /\ UNCHANGED <<cfg, call_states, mon, sm, unit, bot>>

SpecSessions == TMInit /\ [][SessNext]_vars

\* the caller holding the lock of a session: it is inside the body of its
\* operation, suspended at `await task`
Holds(k, call) == callers[k].call = call /\ callers[k].pc = "await_task"

\* C21: an operation on one session never waits for an operation on another
\* session: a caller queued on a lock is queued behind a caller working on
\* the same session (or has just been woken), a caller suspended inside an
\* operation awaits a task of its own session, and an operation that is
\* called while no caller works on its session does not queue
C21_SessionsDoNotBlock ==
    /\ \A k \in SessCallers :
          /\ callers[k].pc = "wait_lock"
                => \/ task_locks[callers[k].call].woken
                   \/ \E k2 \in SessCallers \ {k} : Holds(k2, callers[k].call)
          /\ callers[k].pc = "await_task"
                => tasks[callers[k].awaiting].call = callers[k].call
    /\ \A call \in SessCalls :
          Cardinality({k \in SessCallers : Holds(k, call)}) <= 1

\* both sessions have an operation blocked at the same time, each awaiting
\* the termination of the task of its own session: the later of the two
\* took its lock and ran up to its await while the earlier was blocked
C21_Witness ==
    \E k1, k2 \in SessCallers :
        /\ Holds(k1, "call_1") /\ Holds(k2, "call_2")
        /\ ~Done(tasks[callers[k1].awaiting])
        /\ ~Done(tasks[callers[k2].awaiting])

\* the step just taken is cancel_task returning / suspending at `await task`
CancelReturns == ret'.op = "cancel_task" /\ ret'.pc = "idle"
CancelSuspends == ret'.op = "cancel_task" /\ ret'.pc = "await_task"

C25_ReturnsFalse ==
    /\ ret.op = "cancel_task" /\ ret.pc = "idle" /\ ret.result = FALSE
    /\ ret.call \notin DOMAIN active_tasks

(***************************************************************************)
(* SpecPair: one AudioProcessor serving two sessions.  Here ret.data is,   *)
(* for the operations without a chunk, what the operation found for the    *)
(* session, and mon remembers the last removal of a session state.         *)
(***************************************************************************)
PairCalls == {"call_1", "call_2"}
PairChunks == {Quiet(4), Loud(4), Odd(3)}

\* no session state has been removed so far
NoClose == [closed_call |-> None, closed_state |-> FreshState]

\* what an operation finds for a session: whether it has an entry, and which
Found(cs, call) ==
    [found |-> call \in DOMAIN cs,
     state |-> IF call \in DOMAIN cs THEN cs[call] ELSE FreshState]

PairInit ==
    /\ cfg = QuickConfig
    /\ call_states = <<>>
    /\ ret = RetInit
    /\ mon = NoClose
    /\ TMInitState
    /\ NoSocket
    /\ NoBot

PairRoom(call) ==
    call \in DOMAIN call_states
        => Len(call_states[call].audio_buffer) < MaxPairBuf

\* process_audio_chunk(call, d), the stream observer left aside
PairChunk(call, d) ==
    /\ PairRoom(call)
    /\ LET o == process_audio_chunk(cfg, call_states, call, d)
       IN  /\ call_states' = o.cs
           /\ ret' = Ret("process_audio_chunk", call, d, o.should,
                         o.buffer_copy, o.branch)
           /\ mon' = mon

PairOp(call, op, cs) ==
    /\ call_states' = cs
    /\ ret' = Ret(op, call, Found(call_states, call), FALSE, None, None)
    /\ mon' = IF op = "cleanup_call_state" /\ call \in DOMAIN call_states
              THEN [closed_call |-> call, closed_state |-> call_states[call]]
              ELSE mon

PairNext ==
    /\ \E call \in PairCalls :
          \/ \E d \in PairChunks : PairChunk(call, d)
          \/ PairOp(call, "initialize_call_state",
                    initialize_call_state(call_states, call))
          \/ PairOp(call, "cleanup_call_state",
                    cleanup_call_state(call_states, call))
          \/ PairOp(call, "finish_processing",
                    finish_processing(call_states, call))
          \/ PairOp(call, "is_processing",
                    is_processing_state(call_states, call))
    /\ UNCHANGED <<cfg, tmVars, sm, unit, bot>>

SpecPair == PairInit /\ [][PairNext]_vars

\* the state of a session, None when it has no entry
StateOf(cs, call) == IF call \in DOMAIN cs THEN cs[call] ELSE None

\* C22: an operation on one session (process_audio_chunk, finish_processing,
\* initialize_call_state, cleanup_call_state, is_processing) leaves every
\* other session as it was: its entry is neither created nor removed, and
\* its accumulator, silence duration and flag are unchanged
C22_SessionsIsolated ==
    [][\A b \in PairCalls \ {ret'.call} :
          /\ (b \in DOMAIN call_states') = (b \in DOMAIN call_states)
          /\ b \in DOMAIN call_states => call_states'[b] = call_states[b]]_vars

\* a segment of one session has just become ready while the other session
\* holds audio, a running silence duration and a clear flag
C22_Witness ==
    /\ ret.op = "process_audio_chunk" /\ ret.call = "call_1" /\ ret.should
    /\ "call_2" \in DOMAIN call_states
    /\ call_states["call_2"].audio_buffer # <<>>
    /\ call_states["call_2"].silent_duration > 0
    /\ ~call_states["call_2"].is_processing

\* C23: opening a session that already has a state leaves its accumulator,
\* silence duration and flag unchanged; a fresh state is made only when the
\* session has none (initialize_call_state is the open of
\* SocketManager.__init__, get_call_state the open of every other operation)
C23_OpenIdempotent ==
    [][(ret'.op \in {"initialize_call_state", "is_processing"}
            /\ ret'.call \in DOMAIN call_states)
          => call_states'[ret'.call] = call_states[ret'.call]]_vars

\* initialize_call_state has just run on a session that held audio, a running
\* silence duration or a set flag: the session now has a fresh state
C23_StateLost ==
    /\ ret.op = "initialize_call_state"
    /\ ret.data.found /\ ret.data.state # FreshState
    /\ call_states[ret.call] = FreshState

\* get_call_state alone is idempotent: is_processing on a session with a
\* state leaves the state as it was
C23_GetIsIdempotent ==
    [][(ret'.op = "is_processing" /\ ret'.call \in DOMAIN call_states)
          => call_states'[ret'.call] = call_states[ret'.call]]_vars

\* the operations that open a session through get_call_state or
\* initialize_call_state without feeding a chunk
Opens == {"initialize_call_state", "is_processing", "finish_processing"}

\* C24: cleanup_call_state removes the state of the session, whatever it
\* was, and the next operation on the session starts from a fresh state:
\* empty accumulator, zero silence duration, flag clear (a chunk is then
\* processed as the first chunk of a fresh session)
C24_CleanAfterClose ==
    [][/\ ret'.op = "cleanup_call_state" => ret'.call \notin DOMAIN call_states'
       /\ (ret'.op \in Opens /\ ret'.call \notin DOMAIN call_states)
            => call_states'[ret'.call] = FreshState
       /\ (ret'.op = "process_audio_chunk" /\ ret'.call \notin DOMAIN call_states)
            => /\ call_states'[ret'.call].audio_buffer \in {<<>>, <<ret'.data>>}
               /\ call_states'[ret'.call].silent_duration <= Samples(ret'.data)
               /\ ret'.branch # "dropped"]_vars

\* a session was closed while it held audio and a running silence duration
\* and has just been opened again: its state is fresh
C24_Witness ==
    /\ ret.op = "is_processing" /\ ~ret.data.found
    /\ mon.closed_call = ret.call
    /\ mon.closed_state.audio_buffer # <<>>
    /\ mon.closed_state.silent_duration > 0
    /\ call_states[ret.call] = FreshState

\* the same for a session closed while its flag was set
C24_ClosedWhileProcessing ==
    /\ ret.op = "is_processing" /\ ~ret.data.found
    /\ mon.closed_call = ret.call
    /\ mon.closed_state.is_processing
    /\ call_states[ret.call] = FreshState

(***************************************************************************)
(* SpecHandler: AudioTaskHandler._handle_audio_message feeding its         *)
(* AudioProcessor and submitting units of work to its TaskManager, with    *)
(* AudioTaskHandler.cleanup_call running concurrently.  k1 is the          *)
(* coroutine handling the audio messages one after the other, k2 the one   *)
(* calling cleanup_call.  mon.heard is the stream as it arrived: the       *)
(* chunks handed to the handler since its last segment-ready event,        *)
(* dropped or not.                                                         *)
(***************************************************************************)
HandlerChunks == {Quiet(4), Loud(4)}

NoneHeard == [heard |-> <<>>]

RECURSIVE TrailingSilent(_, _)
\* the silence duration that lines 85-88 give for a sequence of chunks
TrailingSilent(c, h) ==
    IF h = <<>> THEN 0
    ELSE IF h[Len(h)].rms < c.silence_threshold
         THEN Samples(h[Len(h)]) + TrailingSilent(c, SubSeq(h, 1, Len(h) - 1))
         ELSE 0

\* the chunks form a complete segment by the rule of lines 94-116
SegmentComplete(c, h) ==
    /\ h # <<>>
    /\ SilenceGate(c, TrailingSilent(c, h))
    /\ LengthGate(c, BufLen(h))
    /\ MaxEnergy(h) >= c.silence_threshold

HandlerInit ==
    /\ cfg = QuickConfig
    /\ call_states = <<>>
    /\ ret = RetInit
    /\ mon = NoneHeard
    /\ TMInitState
    /\ NoSocket
    /\ NoBot

\* the units of work that have not terminated
LiveUnits == {t \in TaskIds : tasks[t].kind = "unit" /\ ~Done(tasks[t])}

\* _handle_audio_message(d), lines 61-78, up to its first suspension
HandleAudioMessage(k, call, d) ==
    /\ callers[k].pc = "idle"
    /\ Len(mon.heard) < MaxHeard
    /\ LET o == process_audio_chunk(cfg, call_states, call, d)
       IN  /\ call_states' = o.cs
           /\ ret' = Ret("process_audio_chunk", call, d, o.should,
                         o.buffer_copy, o.branch)
           /\ mon' = [heard |-> IF o.branch \in {"ready", "discarded"}
                                THEN <<>> ELSE Append(mon.heard, d)]
           /\ IF o.should /\ BufLen(o.buffer_copy) > 0
              THEN /\ Len(tasks) < MaxHandlerTasks
                   /\ \E order \in SlotOrders :
                         TMCall(k, "create_task", call, "audio_process", order)
              ELSE UNCHANGED tmVars
    /\ UNCHANGED cfg

\* the state of the call after a step of cleanup_call that ended in state S
\* of the TaskManager: line 160 runs once task_manager.cleanup_call returned
AfterCleanup(S, call) ==
    IF S.me.pc = "idle" THEN cleanup_call_state(call_states, call)
    ELSE call_states

\* AudioTaskHandler.cleanup_call(call), lines 153-165
HandlerCleanup(k, call) ==
    /\ \E order \in SlotOrders :
          /\ TMCall(k, "cleanup_call", call, None, order)
          /\ call_states' =
                AfterCleanup(CallState(k, "cleanup_call", call, None, order), call)
    /\ mon' = IF call \in DOMAIN call_states' THEN mon ELSE NoneHeard
    /\ UNCHANGED <<cfg, ret>>

\* a caller queued on the lock of the call is woken
HandlerLockGranted(k) ==
    /\ TMLockGranted(k)
    /\ call_states' = IF callers[k].op = "cleanup_call"
                      THEN AfterCleanup(GrantState(k), callers[k].call)
                      ELSE call_states
    /\ mon' = IF callers[k].call \in DOMAIN call_states' THEN mon ELSE NoneHeard
    /\ UNCHANGED <<cfg, ret>>

\* the task a caller awaits is done
HandlerAwaitDone(k) ==
    /\ TMAwaitDone(k)
    /\ call_states' = IF callers[k].op = "cleanup_call"
                      THEN AfterCleanup(AwaitState(k), callers[k].call)
                      ELSE call_states
    /\ mon' = IF callers[k].call \in DOMAIN call_states' THEN mon ELSE NoneHeard
    /\ UNCHANGED <<cfg, ret>>

\* a step of _transcribe_and_respond_task; when that step ends a unit that
\* had started, its finally clause has run finish_processing (149-151)
HandlerUnitStep(t) ==
    /\ UnitStart(t) \/ UnitEnd(t) \/ UnitCancelled(t)
    /\ call_states' = IF tasks[t].state = "running" /\ Done(tasks'[t])
                      THEN finish_processing(call_states, tasks[t].call)
                      ELSE call_states
    /\ UNCHANGED <<cfg, ret, mon>>

HandlerNext ==
    /\ \/ \E d \in HandlerChunks : HandleAudioMessage("k1", AudioCall, d)
       \/ HandlerCleanup("k2", AudioCall)
       \/ \E k \in {"k1", "k2"} : HandlerLockGranted(k)
       \/ \E k \in {"k1", "k2"} : HandlerAwaitDone(k)
       \/ \E t \in TaskIds : HandlerUnitStep(t)
    /\ UNCHANGED <<sm, unit, bot>>

SpecHandler == HandlerInit /\ [][HandlerNext]_vars

\* the chunk handed to the handler in this step completes a segment of the
\* stream as it arrived
HeardSegment ==
    \E d \in HandlerChunks :
        /\ HandleAudioMessage("k1", AudioCall, d)
        /\ SegmentComplete(cfg, Append(mon.heard, d))

Deciding == sm.receive_task = "gather"

\* C27: the receive loop decides one frame at a time, in arrival order: a
\* frame is taken up (segmentation, client_left handling, dispatch) only when
\* no decision is in progress; a decision in progress ends only by creating
\* the task of that very frame, once every task it cancelled is done, or with
\* the end of the loop; and every task is created by the decision of the
\* frame it belongs to.
C27_FramesInOrder ==
    [][/\ FrameHandled
            => /\ ~Deciding /\ sm.loop_wait = {} /\ sm.loop_next = None
               /\ sm'.receive_task \in {"recv", "gather"}
               /\ Deciding' => /\ sm'.loop_next \in SMKinds
                               /\ sm'.loop_wait # {}
                               /\ Len(tasks') = Len(tasks)
       /\ Deciding
            => \/ /\ Deciding'
                  /\ sm'.loop_next = sm.loop_next
                  /\ sm'.loop_wait = sm.loop_wait
                  /\ Len(tasks') = Len(tasks)
               \/ /\ sm'.receive_task = "recv"
                  /\ NotDone(sm.loop_wait) = {}
                  /\ Len(tasks') = Len(tasks) + 1
                  /\ tasks'[Len(tasks')].kind = sm.loop_next
                  /\ sm'.loop_wait = {} /\ sm'.loop_next = None
               \/ /\ sm'.receive_task \notin {"recv", "gather"}
                  /\ Len(tasks') = Len(tasks)
       /\ Len(tasks') > Len(tasks)
            => \/ FrameHandled /\ ~Deciding'
               \/ Deciding /\ SMGatherDone(AudioCall)]_vars

\* the decision for a text frame is in progress: the loop waits for the
\* running task of an earlier segment that it cancelled
C27_Witness ==
    /\ Deciding /\ sm.loop_next = "json"
    /\ \E t \in sm.loop_wait :
          /\ tasks[t].kind = "processed_audio" /\ tasks[t].started
          /\ tasks[t].cancel_req /\ ~Done(tasks[t])

\* the decision that had to wait has completed: the task of the later frame
\* exists and its predecessor ended cancelled
C27_DecisionCompleted ==
    /\ sm.receive_task = "recv" /\ Len(tasks) = 2
    /\ tasks[1].kind = "processed_audio" /\ tasks[1].outcome = "cancelled"
    /\ tasks[2].kind = "json" /\ ~Done(tasks[2])

(***************************************************************************)
(* Further claims on the segmentation of a generic stream (SpecAudio)      *)
(***************************************************************************)
\* C28: a ready event is returned only for a well-formed chunk whose own RMS
\* energy is below the silence threshold, and only when with that chunk the
\* trailing silence reaches the silence-duration threshold and the
\* accumulator exceeds the minimum buffer length; a chunk whose RMS energy is
\* at or above the threshold leaves the silence duration at zero and is
\* answered neither with a ready event nor with a discard.
C28_ReadyOnlyOnSilentChunk ==
    [][ret'.op = "process_audio_chunk"
         => /\ ret'.should
                 => /\ WellFormed(ret'.data)
                    /\ ret'.data.rms < cfg.silence_threshold
                    /\ SilenceGate(cfg, PreSilent(ret'.call, ret'.data))
                    /\ LengthGate(cfg, BufLen(PreBuf(ret'.call, ret'.data)))
                    /\ ret'.branch = "ready"
            /\ IsLoud(cfg, ret'.data)
                 => /\ call_states'[ret'.call].silent_duration = 0
                    /\ ~ret'.should
                    /\ ret'.branch \notin {"ready", "discarded"}
                    /\ ~PreState(ret'.call).is_processing
                          => call_states'[ret'.call].audio_buffer =
                                PreBuf(ret'.call, ret'.data)]_vars

\* a ready event on a below-threshold chunk that completed the silence
C28_Witness ==
    /\ LastWasChunk /\ ret.should /\ ret.branch = "ready"
    /\ ret.data.rms < cfg.silence_threshold
    /\ \E i \in DOMAIN ret.buffer_copy :
          ret.buffer_copy[i].rms >= cfg.silence_threshold

\* an above-threshold chunk arrived after silence with the length gate met:
\* the silence duration is back at zero and the accumulator is kept
C28_LoudResets ==
    /\ LastWasChunk /\ IsLoud(cfg, ret.data) /\ ret.branch = "waiting"
    /\ LengthGate(cfg, BufLen(call_states[ret.call].audio_buffer))
    /\ call_states[ret.call].silent_duration = 0
    /\ \E i \in DOMAIN call_states[ret.call].audio_buffer :
          IsSilent(cfg, call_states[ret.call].audio_buffer[i])

\* samples held in the accumulator of the call (2 bytes per sample, mono)
HeldSamples(st) == BufLen(st.audio_buffer) \div (bytes_per_sample * channels)

\* C29: in every state of a session the accumulated silence duration is at
\* most the duration of the audio held in the accumulator, and it is zero
\* whenever the accumulator is empty.
C29_SilenceWithinAccumulator ==
    \A call \in DOMAIN call_states :
        /\ call_states[call].silent_duration <= HeldSamples(call_states[call])
        /\ call_states[call].audio_buffer = <<>>
              => call_states[call].silent_duration = 0

\* silence is running at the end of an accumulator that also holds speech
C29_Witness ==
    \E call \in DOMAIN call_states :
        /\ call_states[call].silent_duration > 0
        /\ call_states[call].silent_duration < HeldSamples(call_states[call])

\* a ready event has just emptied the accumulator and zeroed the duration
C29_ResetTogether ==
    /\ LastWasChunk /\ ret.branch = "ready"
    /\ call_states[ret.call].audio_buffer = <<>>
    /\ call_states[ret.call].silent_duration = 0

\* the accumulator before the step holds a malformed chunk at position i and
\* only well-formed chunks after it, and chunk d completes, with those, a
\* well-formed utterance: speech, then enough silence, long enough
CompletesAfterError(call, d, i) ==
    LET buf == PreState(call).audio_buffer
        rest == Append(SubSeq(buf, i + 1, Len(buf)), d)
    IN  /\ ~WellFormed(buf[i])
        /\ \A j \in DOMAIN rest : WellFormed(rest[j])
        /\ IsLoud(cfg, rest[1])
        /\ SegmentComplete(cfg, rest)

\* C30: after a chunk whose processing raised an error, the chunk that
\* completes a later well-formed utterance is answered with a ready event.
C30_RecoversAfterError ==
    [][(/\ ret'.op = "process_audio_chunk"
        /\ ~PreState(ret'.call).is_processing
        /\ \E i \in DOMAIN PreState(ret'.call).audio_buffer :
              CompletesAfterError(ret'.call, ret'.data, i))
       => ret'.should]_vars

\* C30 (what the code does): a malformed chunk is still in the accumulator,
\* followed by a complete well-formed utterance; the last chunk was answered
\* with the error result and nothing was flushed.
C30_StuckAfterError ==
    /\ LastWasChunk /\ ret.branch = "error" /\ WellFormed(ret.data)
    /\ \E i \in DOMAIN call_states[ret.call].audio_buffer :
          LET buf == call_states[ret.call].audio_buffer
              rest == SubSeq(buf, i + 1, Len(buf))
          IN  /\ ~WellFormed(buf[i])
              /\ \A j \in DOMAIN rest : WellFormed(rest[j])
              /\ SegmentComplete(cfg, rest)

(***************************************************************************)
(* SpecFrames: the receive loop of one SocketManager with its handler      *)
(* tasks and the delayed teardown, each handler task recorded with the     *)
(* type of the frame whose payload it carries.                             *)
(***************************************************************************)
FramesNext ==
    /\ \/ \E cb \in BOOLEAN : SMConnect(cb)
       \/ \E d \in SMChunks : SMAudioFrame(AudioCall, d)
       \/ \E f \in TextFrames :
             Len(tasks) < MaxFrameTasks /\ SMTextFrameAs(AudioCall, f, f)
       \/ SMGatherDone(AudioCall)
       \/ SMConnectionClosed
       \/ SMLoopEnd
       \/ SMFinalGatherDone
       \/ \E t \in TaskIds : SMTaskStart(t)
       \/ \E t \in TaskIds : SMTaskEnd(AudioCall, t)
       \/ \E t \in TaskIds : SMTaskCancelled(AudioCall, t)
       \/ \E enabled \in BOOLEAN : SMSetAutoDisconnect(enabled)
       \/ SMDisconnect(AudioCall, "delayed")
       \/ SMDisconnectGathered(AudioCall)
       \/ SMDisconnectClosed
    /\ UNCHANGED <<unit, bot>>

SpecFrames == SMInit /\ [][FramesNext]_vars

\* the receive loop handles text frame f, recording its task by frame type
FrameStep(f) == SMTextFrameAs(AudioCall, f, f)

\* a client_left frame is handled while auto-disconnect is disabled, or one
\* whose departing client is not a user
QuietLeave(f) ==
    /\ IsClientLeft(f) /\ FrameStep(f)
    /\ ~sm.auto_disconnect_enabled \/ ClientType(f) # "user"

\* what lines 193-205 make of a text frame that is no client_left frame
PlainDispatch(f) ==
    IF sm.on_receive THEN SMCancelThenSpawn(sm, AudioCall, f)
    ELSE [tasks |-> tasks, sm |-> sm]

C31_OtherTypeIgnored ==
    /\ Len(tasks) = 1 /\ tasks[1].kind = "client_left_other"
    /\ sm.auto_disconnect_enabled
    /\ sm.farewell = None /\ ~sm.delayed /\ sm.disc = "idle"
    /\ sm.receive_task = "recv" /\ sm.conn = "OPEN"

\* this step ends a unit of work that had started: its finally clause runs
CompletionHandlerRuns ==
    \E t \in TaskIds :
        /\ HandlerUnitStep(t) /\ tasks[t].started /\ Done(tasks'[t])
        /\ call_states' = finish_processing(call_states, tasks[t].call)

\* this step removes the state of the call: the next use creates it anew
StateRemoved == AudioCall \in DOMAIN call_states /\ AudioCall \notin DOMAIN call_states'

\* C32: a segment is reported ready only while the dispatch flag of the
\* session is clear, the ready event sets it, and the flag is cleared only by
\* finish_processing in the completion handler of a unit of work or by the
\* removal of the session's state (which the next use initialises anew); so
\* between two ready events the flag was cleared by one of these, and at a
\* ready event no unit of work of the session is still to terminate.
C32_ReadyEventsSeparated ==
    [][/\ (\E d \in HandlerChunks :
              /\ HandleAudioMessage("k1", AudioCall, d)
              /\ process_audio_chunk(cfg, call_states, AudioCall, d).should)
          => /\ ~FlagSet(AudioCall)
             /\ FlagSet(AudioCall)'
             /\ LiveUnits = {}
       /\ (FlagSet(AudioCall) /\ ~FlagSet(AudioCall)')
          => CompletionHandlerRuns \/ StateRemoved]_vars

\* a second segment has just become ready: the unit of the first one ran and
\* terminated, its completion handler cleared the flag in between
C32_Witness ==
    /\ Len(tasks) = 2
    /\ tasks[1].started /\ Done(tasks[1])
    /\ tasks[2].state = "scheduled"
    /\ ret.op = "process_audio_chunk" /\ ret.should
    /\ FlagSet(AudioCall)

\* C32 (what the code does): a segment has become ready and its submission
\* has found the unit of work of the previous segment still to terminate; the
\* state of the session was removed by cleanup_call after that segment was
\* ready and created anew, flag clear, by the next chunk
C32_ReadyWhileUnitLive ==
    /\ ret.op = "process_audio_chunk" /\ ret.should
    /\ FlagSet(AudioCall)
    /\ callers["k1"].op = "create_task" /\ callers["k1"].pc = "await_task"
    /\ callers["k1"].occ_live
    /\ ~Done(tasks[callers["k1"].awaiting])


\* the processed-audio tasks that have not terminated
LiveAudioTasks ==
    {t \in TaskIds : tasks[t].kind = "processed_audio" /\ ~Done(tasks[t])}

\* C33: a text frame of any type handled while a processed-audio task has not
\* terminated requests the cancellation of that task and makes the receive
\* loop wait for it; the handler task of the frame is not created in that
\* step, and a handler task for a text frame is only ever created when every
\* processed-audio task has terminated.
C33_TextFramePreemptsAudio ==
    [][/\ \A f \in TextFrames :
             (FrameStep(f) /\ LiveAudioTasks # {})
             => /\ \A t \in LiveAudioTasks : tasks'[t].cancel_req
                /\ sm'.receive_task = "gather"
                /\ LiveAudioTasks \subseteq sm'.loop_wait
                /\ sm'.loop_next = f
                /\ Len(tasks') = Len(tasks)
       /\ (Len(tasks') > Len(tasks) /\ tasks'[Len(tasks')].kind \in TextFrames)
             => LiveAudioTasks = {}]_vars

\* the loop waits for a running processed-audio task that it cancelled for a
\* client_left frame and that has swallowed the cancellation so far
C33_Witness ==
    /\ sm.receive_task = "gather" /\ sm.loop_next = "client_left"
    /\ \E t \in sm.loop_wait :
          /\ tasks[t].kind = "processed_audio" /\ tasks[t].started
          /\ tasks[t].cancel_req /\ ~tasks[t].must_cancel /\ ~Done(tasks[t])

\* the handler task of the text frame was created after the processed-audio
\* task had ended cancelled
C33_HandlerAfterAudio ==
    /\ Len(tasks) = 2
    /\ tasks[1].kind = "processed_audio" /\ tasks[1].outcome = "cancelled"
    /\ tasks[2].kind = "client_left_other"

\* the receive loop handles a client_left frame of a user while
\* auto-disconnect is enabled: the frame triggers the auto-disconnect
LeaveTriggers == FrameStep("client_left") /\ sm.auto_disconnect_enabled

\* C34: a client_left frame that triggers the auto-disconnect is not
\* dispatched to the registered handler: handling it creates no handler task,
\* cancels no pending task and does not make the loop wait in order to
\* create one.
C34_LeaveNotDispatched ==
    [][LeaveTriggers
          => /\ tasks' = tasks
             /\ sm'.receive_task = "recv"
             /\ sm'.loop_next = None]_vars

\* C34 (what the code does): the teardown is scheduled, the farewell was
\* sent, and the handler task carrying the same client_left frame runs.
C34_LeaveAlsoDispatched ==
    /\ sm.on_receive /\ sm.delayed /\ sm.farewell = "sent"
    /\ Len(tasks) = 1
    /\ tasks[1].kind = "client_left" /\ tasks[1].started /\ ~Done(tasks[1])
    /\ sm.receive_task = "recv"

\* C34 (the other half): frames that trigger no auto-disconnect are
\* dispatched to the handler whenever one is registered.
C34_OthersDispatched ==
    [][\A f \in TextFrames :
          (FrameStep(f) /\ sm.on_receive
           /\ ~(f = "client_left" /\ sm.auto_disconnect_enabled))
          => \/ /\ Len(tasks') = Len(tasks) + 1
                /\ tasks'[Len(tasks')].kind = f
             \/ sm'.receive_task = "gather" /\ sm'.loop_next = f]_vars

\* the entry of the session was removed by cleanup_call_state, it was the
\* last removal, and the session has had no entry since
RemovedAndAbsent(call) ==
    mon.closed_call = call /\ call \notin DOMAIN call_states

\* C35: once cleanup_call_state has removed the entry of a session, only
\* initialize_call_state makes an entry for that session reappear: no chunk,
\* no finish_processing and no is_processing query does.
C35_OnlyOpenRecreates ==
    [][\A call \in PairCalls :
          (RemovedAndAbsent(call) /\ call \in DOMAIN call_states')
          => ret'.op = "initialize_call_state"]_vars

\* C35 (what the code does): finish_processing, called for a session whose
\* entry cleanup_call_state had removed, has created a fresh entry for it.
C35_EntryResurrected ==
    /\ ret.op = "finish_processing"
    /\ mon.closed_call = ret.call
    /\ ~ret.data.found
    /\ ret.call \in DOMAIN call_states
    /\ call_states[ret.call] = FreshState

\* the same by an is_processing query
C35_ResurrectedByQuery ==
    /\ ret.op = "is_processing"
    /\ mon.closed_call = ret.call
    /\ ~ret.data.found
    /\ ret.call \in DOMAIN call_states

(***************************************************************************)
(* SpecCallers: the TaskManager of one session with two slot names, called *)
(* by two coroutines that may themselves be cancelled while they wait for  *)
(* the occupant of a slot.  mon.cancelled holds the callers on which       *)
(* cancel() was called during `await task` of their current operation.     *)
(***************************************************************************)
TwoSlots == {"audio_process", "tts"}
\* the operations that name a slot
SlotOps == {"create_task", "cancel_task"}

NoneCancelled == [cancelled |-> {}]

CallersInit ==
    /\ cfg = DefaultConfig
    /\ call_states = <<>>
    /\ ret = RetInit
    /\ mon = NoneCancelled
    /\ TMInitState
    /\ NoSocket
    /\ NoBot

\* Task.cancel() on the coroutine k that is suspended at `await task`: the
\* cancellation is passed on to the awaited task (Task.cancel() cancels the
\* future the task waits for); the caller sees it when it is resumed
CallerCancelled(k) ==
    /\ callers[k].pc = "await_task"
    /\ k \notin mon.cancelled
    /\ tasks' = [tasks EXCEPT ![callers[k].awaiting] = Cancel(@)]
    /\ mon' = [cancelled |-> mon.cancelled \cup {k}]
    /\ ret' = [op |-> "cancel_caller", call |-> callers[k].call,
               slot |-> callers[k].slot, caller |-> k, pc |-> "await_task",
               result |-> None]
    /\ UNCHANGED <<active_tasks, task_locks, callers>>

CallersNext ==
    /\ \/ \E k \in SessCallers, op \in SlotOps, slot \in TwoSlots :
             /\ SessCall(k, op, AudioCall, slot, <<>>)
             /\ mon' = [cancelled |-> mon.cancelled \ {k}]
       \/ \E k \in SessCallers : SessLockGranted(k) /\ mon' = mon
       \/ \E k \in SessCallers : SessAwaitDone(k) /\ mon' = mon
       \/ \E k \in SessCallers : CallerCancelled(k)
       \/ \E t \in TaskIds :
             /\ UnitStart(t) \/ UnitEnd(t) \/ UnitCancelled(t)
             /\ ret' = TaskStep(t) /\ mon' = mon
    /\ UNCHANGED <<cfg, call_states, sm, unit, bot>>

SpecCallers == CallersInit /\ [][CallersNext]_vars

\* caller k, cancelled while it waited for the occupant, is resumed
ResumedAfterCancel(k) == k \in mon.cancelled /\ TMAwaitDone(k)

\* C36: a coroutine cancelled while create_task or cancel_task waits for the
\* previous occupant receives the cancellation when it is resumed: the
\* operation ends with the exception and no new task is started.
C36_CancelReachesCaller ==
    [][\A k \in SessCallers :
          (ResumedAfterCancel(k) /\ callers[k].op \in {"create_task", "cancel_task"})
          => /\ callers'[k].raised
             /\ Len(tasks') = Len(tasks)]_vars

\* C36 (what the code does): create_task has returned a new task, started in
\* the slot, to a caller that was cancelled while it waited for the occupant.
C36_CancelSwallowed ==
    /\ ret.op = "create_task" /\ ret.pc = "idle"
    /\ ret.caller \in mon.cancelled
    /\ ~callers[ret.caller].raised
    /\ Occupied(active_tasks, ret.call, ret.slot)
    /\ active_tasks[ret.call][ret.slot] = Len(tasks)
    /\ tasks[Len(tasks)].pred_live

\* C40: a step of create_task or cancel_task on one slot name of a session
\* (its call, its resumption after the lock or after `await task`, and the
\* cancellation of its caller) leaves every other slot name of the session
\* as it was: the same task is recorded there, or none, and that task is
\* neither cancelled nor otherwise changed.
C40_OtherSlotsUntouched ==
    [][\A s \in TwoSlots :
          (ret'.op \in SlotOps \cup {"cancel_caller"} /\ ret'.slot # s)
          => /\ Occupant(active_tasks', ret'.call, s)
                   = Occupant(active_tasks, ret'.call, s)
             /\ Occupied(active_tasks, ret'.call, s)
                   => tasks'[active_tasks[ret'.call][s]]
                         = tasks[active_tasks[ret'.call][s]]]_vars

\* cancel_task on one slot has returned True and the task in the other slot
\* is still recorded, running, with no cancellation requested
C40_Witness ==
    /\ ret.op = "cancel_task" /\ ret.pc = "idle" /\ ret.result = TRUE
    /\ ret.slot = "tts"
    /\ ~Occupied(active_tasks, ret.call, "tts")
    /\ Occupied(active_tasks, ret.call, "audio_process")
    /\ LET tk == tasks[active_tasks[ret.call]["audio_process"]]
       IN  tk.started /\ ~Done(tk) /\ ~tk.cancel_req
    /\ \E t \in TaskIds : tasks[t].slot = "tts" /\ tasks[t].outcome = "cancelled"

(***************************************************************************)
(* The order of the messages of one unit of work (SpecUnit)                *)
(***************************************************************************)
\* the messages of a complete run in program order, lines 104-137
FullOrder(wait_audio) ==
    <<"cancel_audio", "transcription", "wait_text">>
        \o (IF wait_audio THEN <<"wait_audio">> ELSE <<>>)
        \o <<"response", "audio">>

IsPrefix(a, b) == Len(a) <= Len(b) /\ a = SubSeq(b, 1, Len(a))

\* what was sent before the error notification, if one was sent
BeforeError(box) ==
    IF box # <<>> /\ box[Len(box)] = "error" THEN SubSeq(box, 1, Len(box) - 1)
    ELSE box

\* the unit ended normally, nothing having failed, after sending something
CompleteRun ==
    unit.pc = "done" /\ unit.outcome = "ok" /\ unit.failures = {}
    /\ unit.outbox # <<>>

\* C37 (as claimed): whatever happens in the unit, the messages it has sent
\* are a prefix of cancel_audio, transcription, wait text, wait audio (if
\* any), text response, synthesized audio.
C37_FixedOrder == IsPrefix(unit.outbox, FullOrder(unit.wait_audio))

\* C37 (amended): the messages a unit has sent, the error notification of a
\* failed downstream call left aside, are a prefix of cancel_audio,
\* transcription, wait text, wait audio (if any), text response, synthesized
\* audio; the error notification comes last, only after a failure, and never
\* in a cancelled unit; a run that ends normally without failure has sent the
\* whole sequence, with or without the synthesized audio; and a unit whose
\* transcript is empty ends without having sent anything.
C37_FixedOrderOrError ==
    [][/\ IsPrefix(BeforeError(unit'.outbox), FullOrder(unit'.wait_audio))
       /\ ErrorCount(unit'.outbox) > 0
             => unit'.failures # {} /\ unit'.outcome # "cancelled"
       /\ unit'.outcome = "cancelled"
             => IsPrefix(unit'.outbox, FullOrder(unit'.wait_audio))
       /\ CompleteRun'
             => \/ unit'.outbox = FullOrder(unit'.wait_audio)
                \/ unit'.outbox = SubSeq(FullOrder(unit'.wait_audio), 1,
                                         Len(FullOrder(unit'.wait_audio)) - 1)
       /\ \A res \in Results \ {"text"} :
             UnitTranscribed(AudioCall, res)
             => unit'.pc = "done" /\ unit'.outbox = <<>>]_vars

\* a complete run with the wait audio and the synthesized audio
C37_Witness ==
    /\ unit.pc = "done" /\ unit.outcome = "ok"
    /\ unit.outbox = <<"cancel_audio", "transcription", "wait_text",
                       "wait_audio", "response", "audio">>

\* a unit cancelled in mid-flight has sent a proper prefix
C37_CancelledPrefix ==
    /\ unit.pc = "done" /\ unit.outcome = "cancelled"
    /\ unit.outbox = <<"cancel_audio", "transcription", "wait_text">>

\* the query failed: the error notification follows the wait message
C37_ErrorAfterPrefix ==
    /\ unit.pc = "done" /\ unit.failures = {"query"}
    /\ unit.outbox = <<"cancel_audio", "transcription", "wait_text", "error">>

(***************************************************************************)
(* bot.py: the /join and /leave endpoints, the bot tasks they start and    *)
(* stop, and the module-level accumulator all bot tasks share              *)
(*                                                                         *)
(* A bot task is [call, pc, must_cancel, silent_duration, is_processing].  *)
(* pc is where bot_join_call is suspended:                                 *)
(*   scheduled     created by /join, not yet run                           *)
(*   connecting    in websockets.connect                                   *)
(*   greeting      sending the initial greeting                            *)
(*   recv          in websocket.recv() of the loop                         *)
(*   transcribing  in transcribe_and_respond                               *)
(*   closing       leaving `async with`: the connection is being closed    *)
(*   done          ended (after `finally`, or cancelled before it ran)     *)
(* silent_duration is kept in milliseconds.                                *)
(***************************************************************************)
BotCalls == {"call_1", "call_2"}

silence_duration_ms == 1500
original_sample_rate == 48000
target_sample_rate == 16000
min_buffer_len == target_sample_rate * 2 * 2

\* the binary frames fed to a bot: 750 ms of 16-bit mono audio at 48 kHz
BotChunkBytes == 72000
BotChunks(call) == {[from |-> call, loud |-> l] : l \in BOOLEAN}

chunk_duration(nbytes) ==
    ((nbytes \div (bytes_per_sample * channels)) * 1000) \div original_sample_rate

BotBufLen(buf) == Len(buf) * BotChunkBytes

\* max_energy < silence_threshold over the whole accumulator
BotOnlySilence(buf) == \A i \in 1..Len(buf) : ~buf[i].loud

NewBot(call) ==
    [call |-> call, pc |-> "scheduled", must_cancel |-> FALSE,
     silent_duration |-> 0, is_processing |-> FALSE]

BotIds == 1..Len(bot.bots)
LiveBot(b) == b.pc # "done"

\* Task.cancel(): a task that has ended is left alone
CancelBot(b) == IF LiveBot(b) THEN [b EXCEPT !.must_cancel = TRUE] ELSE b

\* POST /join
join_call(m, call) ==
    IF call \in DOMAIN m.active_bots
    THEN m
    ELSE [m EXCEPT !.bots = Append(@, NewBot(call)),
                   !.active_bots = Put(@, call, Len(m.bots) + 1)]

\* POST /leave
leave_call(m, call) ==
    IF call \in DOMAIN m.active_bots
    THEN [m EXCEPT !.bots[m.active_bots[call]] = CancelBot(@),
                   !.active_bots = Drop(@, call)]
    ELSE m

\* the `finally` of bot_join_call, after which the task has ended
BotFinally(m, t) ==
    [m EXCEPT !.active_bots = IF m.bots[t].call \in DOMAIN @
                              THEN Drop(@, m.bots[t].call) ELSE @,
              !.bots[t].pc = "done",
              !.bots[t].must_cancel = FALSE]

\* an exception or `break` leaves the loop and then `async with`
BotLeavesLoop(m, t) == [m EXCEPT !.bots[t].pc = "closing"]

\* np.frombuffer(audio_buffer) keeps the bytearray exported for as long as
\* the task that made the array is in transcribe_and_respond; extend() of an
\* exported bytearray raises BufferError
BufferExported(m) == \E u \in 1..Len(m.bots) : m.bots[u].pc = "transcribing"

\* a binary frame: lines 145-183 up to the await of transcribe_and_respond
BotOnBytes(m, t, chunk) ==
    LET b == m.bots[t]
        buf == Append(m.audio_buffer, chunk)
        silent == IF chunk.loud THEN 0
                  ELSE b.silent_duration + chunk_duration(BotChunkBytes)
    IN  IF b.is_processing THEN m
        ELSE IF BufferExported(m) THEN BotLeavesLoop(m, t)
        ELSE IF silent >= silence_duration_ms /\ BotBufLen(buf) > min_buffer_len
        THEN IF BotOnlySilence(buf)
             THEN [m EXCEPT !.audio_buffer = <<>>,
                            !.bots[t].silent_duration = 0,
                            !.ev = [op |-> "only_silence", by |-> t, held |-> buf]]
             ELSE [m EXCEPT !.audio_buffer = buf,
                            !.bots[t].silent_duration = silent,
                            !.bots[t].is_processing = TRUE,
                            !.bots[t].pc = "transcribing"]
        ELSE [m EXCEPT !.audio_buffer = buf,
                       !.bots[t].silent_duration = silent]

\* transcribe_and_respond has returned: lines 181-183
BotAfterTranscription(m, t) ==
    [m EXCEPT !.audio_buffer = <<>>,
              !.bots[t].silent_duration = 0,
              !.bots[t].is_processing = FALSE,
              !.bots[t].pc = "recv",
              !.ev = [op |-> "transcribed", by |-> t, held |-> m.audio_buffer]]

NoEvent(m) == [m EXCEPT !.ev = NoBotEvent]
Running(t, pc) == bot.bots[t].pc = pc /\ ~bot.bots[t].must_cancel

JoinCall(call) ==
    /\ Len(bot.bots) < MaxBots
    /\ bot' = join_call(NoEvent(bot), call)

LeaveCall(call) == bot' = leave_call(NoEvent(bot), call)

\* the first step of the task; a task cancelled before it never runs
BotStart(t) ==
    /\ bot.bots[t].pc = "scheduled"
    /\ bot' = IF bot.bots[t].must_cancel
              THEN [NoEvent(bot) EXCEPT !.bots[t].pc = "done",
                                      !.bots[t].must_cancel = FALSE]
              ELSE [NoEvent(bot) EXCEPT !.bots[t].pc = "connecting"]

BotConnected(t, ok) ==
    /\ Running(t, "connecting")
    /\ bot' = IF ok THEN [NoEvent(bot) EXCEPT !.bots[t].pc = "greeting"]
              ELSE BotFinally(NoEvent(bot), t)

BotGreeted(t, ok) ==
    /\ Running(t, "greeting")
    /\ bot' = IF ok THEN [NoEvent(bot) EXCEPT !.bots[t].pc = "recv"]
              ELSE BotLeavesLoop(NoEvent(bot), t)

\* a text frame; answering a client_joined may fail
BotTextFrame(t, ok) ==
    /\ Running(t, "recv")
    /\ bot' = IF ok THEN NoEvent(bot) ELSE BotLeavesLoop(NoEvent(bot), t)

\* recv() raises ConnectionClosed
BotConnectionClosed(t) ==
    /\ Running(t, "recv")
    /\ bot' = BotLeavesLoop(NoEvent(bot), t)

BotBinaryFrame(t, chunk) ==
    /\ Running(t, "recv")
    /\ Len(bot.audio_buffer) < MaxBotBuf
    /\ bot' = BotOnBytes(NoEvent(bot), t, chunk)

\* transcribe_and_respond returns, or the error notification it sends after a
\* failure raises in its turn
BotTranscribed(t, ok) ==
    /\ Running(t, "transcribing")
    /\ bot' = IF ok THEN BotAfterTranscription(NoEvent(bot), t)
              ELSE BotLeavesLoop(NoEvent(bot), t)

\* CancelledError arrives at the await the task is suspended in; it is no
\* Exception, so neither `except` takes it
BotCancelDelivered(t) ==
    /\ bot.bots[t].must_cancel
    /\ bot.bots[t].pc \in {"connecting", "greeting", "recv", "transcribing", "closing"}
    /\ bot' = IF bot.bots[t].pc \in {"connecting", "closing"}
              THEN BotFinally(NoEvent(bot), t)
              ELSE [BotLeavesLoop(NoEvent(bot), t) EXCEPT !.bots[t].must_cancel = FALSE]

\* the connection is closed; `finally` runs
BotClosed(t) ==
    /\ Running(t, "closing")
    /\ bot' = BotFinally(NoEvent(bot), t)

\* SpecBots: the requests and the bot tasks of one call id
BotsNext ==
    /\ \/ JoinCall(AudioCall)
       \/ LeaveCall(AudioCall)
       \/ \E t \in BotIds : BotStart(t)
       \/ \E t \in BotIds, ok \in BOOLEAN : BotConnected(t, ok)
       \/ \E t \in BotIds, ok \in BOOLEAN : BotGreeted(t, ok)
       \/ \E t \in BotIds, ok \in BOOLEAN : BotTextFrame(t, ok)
       \/ \E t \in BotIds : BotConnectionClosed(t)
       \/ \E t \in BotIds : \E chunk \in BotChunks(bot.bots[t].call) :
             BotBinaryFrame(t, chunk)
       \/ \E t \in BotIds, ok \in BOOLEAN : BotTranscribed(t, ok)
       \/ \E t \in BotIds : BotCancelDelivered(t)
       \/ \E t \in BotIds : BotClosed(t)
    /\ UNCHANGED <<cfg, call_states, ret, mon, tmVars, sm, unit>>

BotsInit ==
    /\ APIdle
    /\ TMInitState
    /\ NoSocket
    /\ NoBot

SpecBots == BotsInit /\ [][BotsNext]_vars

\* SpecBotPair: the requests and the bot tasks of two call ids
BotPairNext ==
    /\ \/ \E call \in BotCalls : Len(bot.bots) < MaxPairBots /\ JoinCall(call)
       \/ \E call \in BotCalls : LeaveCall(call)
       \/ \E t \in BotIds : BotStart(t)
       \/ \E t \in BotIds, ok \in BOOLEAN : BotConnected(t, ok)
       \/ \E t \in BotIds, ok \in BOOLEAN : BotGreeted(t, ok)
       \/ \E t \in BotIds, ok \in BOOLEAN : BotTextFrame(t, ok)
       \/ \E t \in BotIds : BotConnectionClosed(t)
       \/ \E t \in BotIds : \E chunk \in BotChunks(bot.bots[t].call) :
             BotBinaryFrame(t, chunk)
       \/ \E t \in BotIds, ok \in BOOLEAN : BotTranscribed(t, ok)
       \/ \E t \in BotIds : BotCancelDelivered(t)
       \/ \E t \in BotIds : BotClosed(t)
    /\ UNCHANGED <<cfg, call_states, ret, mon, tmVars, sm, unit>>

SpecBotPair == BotsInit /\ [][BotPairNext]_vars

\* the bot tasks that serve a call: started or about to start, neither told
\* to stop nor on their way out
Serving(t) ==
    /\ bot.bots[t].pc \in {"scheduled", "connecting", "greeting", "recv", "transcribing"}
    /\ ~bot.bots[t].must_cancel

\* C38: under any interleaving of /join, /leave and bot task terminations a
\* call id is served by at most one bot task and active_bots maps the call id
\* to that task; the cleanup of a stopped bot leaves the entry of a later bot
C38_OneLiveBotPerCall ==
    \A t \in BotIds :
        Serving(t) =>
            /\ bot.bots[t].call \in DOMAIN bot.active_bots
            /\ bot.active_bots[bot.bots[t].call] = t
            /\ \A u \in BotIds \ {t} :
                  Serving(u) => bot.bots[u].call # bot.bots[t].call

\* a bot stopped by /leave has ended, the bot of a later /join serves the call
\* and active_bots has no entry for it
C38_LaterEntryRemoved ==
    \E t, u \in BotIds :
        /\ t < u
        /\ bot.bots[t].call = bot.bots[u].call
        /\ bot.bots[t].pc = "done"
        /\ Serving(u)
        /\ bot.bots[u].call \notin DOMAIN bot.active_bots

\* two bots serve the same call
C38_TwoBotsServe ==
    \E t, u \in BotIds :
        /\ t # u
        /\ bot.bots[t].call = bot.bots[u].call
        /\ Serving(t) /\ Serving(u)
        /\ bot.bots[t].pc = "recv" /\ bot.bots[u].pc = "recv"

\* every chunk of buf came in on the connection of the call
OwnChunks(buf, call) == \A i \in 1..Len(buf) : buf[i].from = call

\* the bot of another call is in its receive loop
OtherCallActive(t) ==
    \E u \in BotIds : bot.bots[u].call # bot.bots[t].call /\ bot.bots[u].pc = "recv"

\* C39: with two calls active, the segment handed to transcription for one
\* call holds only bytes received on that call's connection, and a reset of
\* the accumulator for one call discards no audio buffered for the other
C39_BufferPerCall ==
    /\ \A t \in BotIds :
          bot.bots[t].pc = "transcribing" =>
              OwnChunks(bot.audio_buffer, bot.bots[t].call)
    /\ bot.ev.op \in {"only_silence", "transcribed"} =>
          OwnChunks(bot.ev.held, bot.bots[bot.ev.by].call)

\* the segment in transcription for one call holds speech of the other call,
\* whose bot is receiving
C39_ForeignAudioTranscribed ==
    \E t \in BotIds :
        /\ bot.bots[t].pc = "transcribing"
        /\ OtherCallActive(t)
        /\ \E i \in 1..Len(bot.audio_buffer) :
              bot.audio_buffer[i].from # bot.bots[t].call /\ bot.audio_buffer[i].loud

\* the silence-only reset made by the bot of one call has discarded audio of
\* the other call, whose bot is receiving
C39_OtherAudioDiscarded ==
    /\ bot.ev.op = "only_silence"
    /\ OtherCallActive(bot.ev.by)
    /\ ~OwnChunks(bot.ev.held, bot.bots[bot.ev.by].call)

=============================================================================
